---- MODULE Spec2Model ----
(***************************************************************************)
(* big-number.js, the variable-base implementation (src/unnamed/part_003). *)
(*                                                                         *)
(* A BigNumber object is the record [number, error, sign, rest]:           *)
(*   number  the array this.number, least-significant limb first;          *)
(*   error   the string this.number holds when the code has overwritten    *)
(*           the array by one of the texts of `errors` ("" while           *)
(*           this.number is an array; number is then <<>>);                *)
(*   sign    this.sign, 1 or -1;                                           *)
(*   rest    this.rest: the native number 0 (isBigNumber = FALSE) or the   *)
(*           BigNumber a division attached (its own rest is always the     *)
(*           native 0, so it is kept as number and sign only).             *)
(* A limb that JavaScript computes as NaN is the limb NaN below.           *)
(*                                                                         *)
(* The code fixes base = 2^25.  Limb products then need 50 bits, beyond    *)
(* the integers TLC computes with, so the model runs the same algorithms   *)
(* with a smaller power of two that still exceeds ten (so that ten is a    *)
(* single limb, as it is in the code).                                     *)
(***************************************************************************)
EXTENDS Integers, Sequences, FiniteSets, TLC

base == 16

\* ---------------------------------------------------------------------------
\* Bounds of the exploration
\* ---------------------------------------------------------------------------
MaxNative == 40      \* receivers are created from native integers -MaxNative..MaxNative
MaxOperand == 20     \* native operands of the arithmetic calls: -MaxOperand..MaxOperand
MaxLen == 3          \* longest string / array handed to the constructor
MaxExp == 4          \* largest exponent handed to power
MaxZero == 3         \* native operands of mod: -MaxZero..MaxZero
MaxSeed == 8         \* sequences of calls start from native integers -MaxSeed..MaxSeed
MaxArg == 2          \* native operands in a sequence of calls: -MaxArg..MaxArg
MaxPow == 2          \* largest exponent in a sequence of calls
MaxCalls == 2        \* longest sequence of calls
MaxLimbs == 4        \* no call starts on a receiver of more limbs
MaxLib == 25         \* base-10 implementation: instances of -MaxLib..MaxLib
MaxLoopExp == 11     \* largest exponent of a power that is followed step by step,
MaxLongExp == 40     \*   and the largest when the receiver is -1, 0 or 1
MaxLoopSeed == 2     \* its receivers are created from -MaxLoopSeed..MaxLoopSeed
MaxPeakLen == 2      \* limbs of the operands whose intermediate values are followed

NaN == 0 - 1

errors == [invalid |-> "Invalid Number",
           divisionbyzero |-> "Invalid Number - Division By Zero"]

\* ---------------------------------------------------------------------------
\* factors: the factorisation of the base (lines 45-73)
\* ---------------------------------------------------------------------------
RECURSIVE isprimeLoop(_, _, _)
isprimeLoop(prime, primes, i) ==
    \* for (i=0; i<primes.length && primes[i]<Math.sqrt(prime); i++)
    IF i <= Len(primes) /\ primes[i] * primes[i] < prime
    THEN IF prime % primes[i] = 0 THEN FALSE ELSE isprimeLoop(prime, primes, i + 1)
    ELSE TRUE

isprime(prime, primes) == isprimeLoop(prime, primes, 1)

RECURSIVE nextprime(_, _)
nextprime(lastprime, primes) ==
    \* do { lastprime = (lastprime==2 ? 3 : lastprime+2) } while (!isprime(lastprime))
    LET p == IF lastprime = 2 THEN 3 ELSE lastprime + 2
    IN IF isprime(p, primes) THEN p ELSE nextprime(p, primes)

RECURSIVE factorise(_, _, _, _)
factorise(factorisingbase, lastprime, primes, result) ==
    IF factorisingbase > 1
    THEN IF factorisingbase % lastprime = 0
         THEN factorise(factorisingbase \div lastprime, lastprime, primes,
                        Append(result, lastprime))
         ELSE LET p == nextprime(lastprime, primes)
              IN factorise(factorisingbase, p, Append(primes, p), result)
    ELSE result

factors == factorise(base, 2, <<>>, <<>>)

\* ---------------------------------------------------------------------------
\* Objects
\* ---------------------------------------------------------------------------
nativeZero == [isBigNumber |-> FALSE, number |-> <<>>, sign |-> 1]

\* the value an object has as somebody's rest
asRest(o) == [isBigNumber |-> TRUE, number |-> o.number, sign |-> o.sign]

\* JavaScript computes the value of a variable when it is assigned:
\* assigned(v) is true of every value, and v is computed where it stands
assigned(v) == v = v

\* JavaScript array access: arr[i] || 0, i counted from 0
At(arr, i) == IF i + 1 <= Len(arr) THEN arr[i + 1] ELSE 0

\* JavaScript array store arr[i] = v for i <= arr.length, i counted from 0
Put(arr, i, v) == IF i + 1 <= Len(arr) THEN [arr EXCEPT ![i + 1] = v] ELSE Append(arr, v)

\* typeof this.number === "string"
isString(o) == o.error # ""

\* this.number.length, of the array or of the string
StrLen(text) == IF text = errors.invalid THEN 14 ELSE 33
length(o) == IF isString(o) THEN StrLen(o.error) ELSE Len(o.number)

\* an array of n limbs that are all NaN
NaNs(n) == [k \in 1..n |-> NaN]

hasNaN(o) == \E i \in 1..Len(o.number) : o.number[i] = NaN

\* ---------------------------------------------------------------------------
\* Constructor, native-number and no-parameter branches (lines 117-144)
\* ---------------------------------------------------------------------------
RECURSIVE nativeLimbs(_)
nativeLimbs(initialNumber) ==
    \* while (initialNumber>0) { push(initialNumber%base); initialNumber=floor(initialNumber/base) }
    IF initialNumber > 0
    THEN <<initialNumber % base>> \o nativeLimbs(initialNumber \div base)
    ELSE <<>>

fromNative(initialNumber) ==
    IF initialNumber = 0
    THEN [number |-> <<0>>, error |-> "", sign |-> 1, rest |-> nativeZero]
    ELSE [number |-> nativeLimbs(IF initialNumber < 0 THEN 0 - initialNumber ELSE initialNumber),
          error |-> "",
          sign |-> IF initialNumber < 0 THEN 0 - 1 ELSE 1,
          rest |-> nativeZero]

\* ---------------------------------------------------------------------------
\* isZero (lines 502-511)
\* ---------------------------------------------------------------------------
isZero(o) ==
    \* a string's first character is never === 0
    IF isString(o) THEN FALSE
    ELSE \A i \in 1..Len(o.number) : o.number[i] = 0

\* ---------------------------------------------------------------------------
\* _compare on two objects (lines 221-242)
\* ---------------------------------------------------------------------------
RECURSIVE compareLoop(_, _, _)
compareLoop(t, b, index) ==
    IF index >= 0
    THEN IF At(t.number, index) > At(b.number, index) THEN t.sign
         ELSE IF At(t.number, index) < At(b.number, index) THEN t.sign * (0 - 1)
         ELSE compareLoop(t, b, index - 1)
    ELSE 0

compareObjects(t, b) ==
    IF t.sign # b.sign THEN t.sign
    ELSE IF length(t) > length(b) THEN t.sign
    ELSE IF length(t) < length(b) THEN t.sign * (0 - 1)
    \* two strings of the same length are the same text: no character differs
    ELSE IF isString(t) THEN 0
    ELSE compareLoop(t, b, Len(t.number) - 1)

\* ---------------------------------------------------------------------------
\* BigNumber._add (lines 316-329) and BigNumber._subtract (lines 333-354),
\* on arrays of limbs
\* ---------------------------------------------------------------------------
Max(x, y) == IF x > y THEN x ELSE y

\* addLoop with the loop condition index < length alone: a carry out of the top
\* limb is dropped
RECURSIVE addLoopNoCarry(_, _, _, _, _)
addLoopNoCarry(an, bn, index, remainder, len) ==
    IF index < len
    THEN LET sum == remainder + At(an, index) + At(bn, index)
         IN addLoopNoCarry(Put(an, index, sum % base), bn, index + 1, sum \div base, len)
    ELSE an

RECURSIVE addLoop(_, _, _, _, _)
addLoop(an, bn, index, remainder, len) ==
    IF index < len \/ remainder > 0
    THEN LET sum == remainder + At(an, index) + At(bn, index)
         IN addLoop(Put(an, index, sum % base), bn, index + 1, sum \div base, len)
    ELSE an

_add(an, bn) == addLoop(an, bn, 0, 0, Max(Len(an), Len(bn)))

RECURSIVE subtractLoop(_, _, _, _)
subtractLoop(an, bn, index, remainder) ==
    IF index < Len(an)
    THEN LET d == an[index + 1] - (At(bn, index) + remainder)
             borrow == IF d < 0 THEN 1 ELSE 0
         IN subtractLoop([an EXCEPT ![index + 1] = d + borrow * base], bn, index + 1, borrow)
    ELSE an

\* the zeroes counted at the top of arr, at most length - 1 of them
RECURSIVE topZeroes(_, _)
topZeroes(arr, index) ==
    \* while (arr[length - index] === 0 && length - index > 0) index++   (length = arr.length - 1)
    IF (Len(arr) - 1) - index > 0 /\ arr[(Len(arr) - 1) - index + 1] = 0
    THEN topZeroes(arr, index + 1)
    ELSE index

\* trim without the splice: the zeroes stay at the top
trimNothing(arr) == arr

\* if (index > 0) arr.splice(-index)
trim(arr) == SubSeq(arr, 1, Len(arr) - topZeroes(arr, 0))

_subtract(an, bn) == trim(subtractLoop(an, bn, 0, 0))

\* ---------------------------------------------------------------------------
\* What a call leaves behind: the receiver after the call, the object it
\* returned, whether that object is the receiver itself, and whether the
\* call ended in a TypeError instead of returning ('use strict', line 12:
\* a store into an index of a string throws).
\* ---------------------------------------------------------------------------
returnsThis(t) == [this |-> t, ret |-> t, same |-> TRUE, thrown |-> FALSE]
returnsNew(t, r) == [this |-> t, ret |-> r, same |-> FALSE, thrown |-> FALSE]
throws(t) == [this |-> t, ret |-> t, same |-> FALSE, thrown |-> TRUE]

\* the helper abs (lines 81-89): a copy with sign 1
abs(o) == [o EXCEPT !.sign = 1]

\* the positions (from 0) of the blanks of a text of `errors`; a blank is the
\* only character of these texts that JavaScript converts to a number (0)
blanks(text) == IF text = errors.invalid THEN {7} ELSE {7, 14, 16, 25, 28}

\* BigNumber._add(a, b) on objects: the array it leaves in a.number
\*   a.number a string: the store a.number[index] = ... throws;
\*   b.number a string: remainder is NaN from the first character on.
addInto(a, b) ==
    IF isString(a) THEN [thrown |-> TRUE, number |-> <<>>]
    ELSE IF isString(b) \/ hasNaN(a) \/ hasNaN(b)
         THEN [thrown |-> FALSE, number |-> NaNs(Max(length(a), length(b)))]
         ELSE [thrown |-> FALSE, number |-> _add(a.number, b.number)]

\* BigNumber._subtract(a, b) on objects: the array it leaves in a.number
\*   b.number a string: a.number[index] - ("I" + 0) is NaN, a limb under a
\*   blank and a limb beyond the text are kept.
subtractInto(a, b) ==
    IF isString(a) THEN [thrown |-> TRUE, number |-> <<>>]
    ELSE IF isString(b)
         THEN [thrown |-> FALSE,
               number |-> [i \in 1..Len(a.number) |->
                              IF i <= StrLen(b.error) /\ (i - 1) \notin blanks(b.error)
                              THEN NaN ELSE a.number[i]]]
         ELSE [thrown |-> FALSE, number |-> _subtract(a.number, b.number)]

\* ---------------------------------------------------------------------------
\* subtract (lines 294-313) and add (lines 271-291) once the argument has been
\* converted: b is bigNumber = BigNumber(number)
\* ---------------------------------------------------------------------------
subtractObjects(t, b) ==
    IF t.sign # b.sign
    THEN LET r == addInto(t, b)
         IN IF r.thrown THEN throws(t)
            ELSE returnsThis([t EXCEPT !.number = r.number])
    ELSE LET t1 == [t EXCEPT !.sign = IF compareObjects(t, b) < 0 THEN 0 - 1 ELSE 1]
             r == IF compareObjects(abs(t1), abs(b)) < 0
                  THEN subtractInto(b, t1)
                  ELSE subtractInto(t1, b)
         IN IF r.thrown THEN throws(t1)
            ELSE returnsThis([t1 EXCEPT !.number = r.number, !.error = ""])

\* addObjects with the operands of the subtraction the wrong way round when the
\* receiver is negative: this.minus(bigNumber) instead of bigNumber.minus(this)
addObjectsBackwards(t, b) ==
    IF t.sign # b.sign
    THEN IF t.sign > 0
         THEN subtractObjects(t, [b EXCEPT !.sign = 1])
         ELSE subtractObjects([t EXCEPT !.sign = 1], b)
    ELSE LET r == addInto(t, b)
         IN IF r.thrown THEN throws(t)
            ELSE returnsThis([t EXCEPT !.number = r.number])

addObjects(t, b) ==
    IF t.sign # b.sign
    THEN IF t.sign > 0
         THEN subtractObjects(t, [b EXCEPT !.sign = 1])
         ELSE \* this.sign = 1; return bigNumber.minus(this)
              LET t1 == [t EXCEPT !.sign = 1]
                  r == subtractObjects(b, t1)
              IN [this |-> t1, ret |-> r.this, same |-> FALSE, thrown |-> r.thrown]
    ELSE LET r == addInto(t, b)
         IN IF r.thrown THEN throws(t)
            ELSE returnsThis([t EXCEPT !.number = r.number])

\* ---------------------------------------------------------------------------
\* multiply (lines 357-385)
\* ---------------------------------------------------------------------------
\* multiplyInner without (result[index + givenNumberIndex] || 0): the limb already
\* in result is overwritten instead of accumulated
RECURSIVE multiplyInnerNoAccumulate(_, _, _, _, _, _)
multiplyInnerNoAccumulate(result, tn, bn, index, givenNumberIndex, remainder) ==
    IF givenNumberIndex < Len(bn) \/ remainder > 0
    THEN LET acc == remainder + tn[index + 1] * At(bn, givenNumberIndex)
         IN multiplyInnerNoAccumulate(Put(result, index + givenNumberIndex, acc % base), tn, bn,
                                      index, givenNumberIndex + 1, acc \div base)
    ELSE result

RECURSIVE multiplyInner(_, _, _, _, _, _)
multiplyInner(result, tn, bn, index, givenNumberIndex, remainder) ==
    IF givenNumberIndex < Len(bn) \/ remainder > 0
    THEN LET acc == remainder + At(result, index + givenNumberIndex)
                      + tn[index + 1] * At(bn, givenNumberIndex)
         IN multiplyInner(Put(result, index + givenNumberIndex, acc % base), tn, bn,
                          index, givenNumberIndex + 1, acc \div base)
    ELSE result

RECURSIVE multiplyOuter(_, _, _, _)
multiplyOuter(result, tn, bn, index) ==
    IF index < Len(tn) /\ assigned(result)
    THEN multiplyOuter(multiplyInner(result, tn, bn, index, 0, 0), tn, bn, index + 1)
    ELSE result

\* the array the two loops leave in result
\*   a character times a limb is NaN, a blank times a limb is 0; a limb times
\*   a character or times NaN is NaN, and NaN stays in remainder to the end of
\*   the inner loop.
multiplyLimbs(t, b) ==
    IF isString(t) /\ ~isString(b) /\ ~hasNaN(b)
    THEN [k \in 1..(StrLen(t.error) + Len(b.number) - 1) |->
             IF (k - 1) \in blanks(t.error) THEN 0 ELSE NaN]
    ELSE IF isString(t) \/ isString(b) \/ hasNaN(t) \/ hasNaN(b)
         THEN NaNs(length(t) + length(b) - 1)
         ELSE multiplyOuter(<<>>, t.number, b.number, 0)

multiplyObjects(t, b) ==
    IF isZero(t) \/ isZero(b)
    THEN returnsNew(t, fromNative(0))
    ELSE returnsThis([t EXCEPT !.sign = t.sign * b.sign,
                               !.number = multiplyLimbs(t, b),
                               !.error = ""])

\* ---------------------------------------------------------------------------
\* divide (lines 388-458)
\* ---------------------------------------------------------------------------
\* the native path over the limbs index..0 (lines 421-424); st = [result, nativerest]
\* divideNative without nativerest*=base
RECURSIVE divideNativeNoShift(_, _, _, _)
divideNativeNoShift(tn, nativebigNumber, index, st) ==
    IF index >= 0
    THEN LET r1 == st.nativerest + tn[index + 1]
             q == r1 \div nativebigNumber
         IN divideNativeNoShift(tn, nativebigNumber, index - 1,
                                [result |-> <<q>> \o st.result,
                                 nativerest |-> r1 - q * nativebigNumber])
    ELSE st

RECURSIVE divideNative(_, _, _, _)
divideNative(tn, nativebigNumber, index, st) ==
    IF index >= 0
    THEN LET r1 == st.nativerest * base + tn[index + 1]
             q == r1 \div nativebigNumber
         IN divideNative(tn, nativebigNumber, index - 1,
                         [result |-> <<q>> \o st.result, nativerest |-> r1 - q * nativebigNumber])
    ELSE st

\* while (bigNumber.lte(rest)) { result[index]+=divisor; rest.subtract(bigNumber) }  (lines 436-440)
\* divideWhile with bigNumber.lt(rest) for bigNumber.lte(rest)
RECURSIVE divideWhileStrict(_, _, _, _)
divideWhileStrict(b, divisor, rest, q) ==
    IF compareObjects(b, rest) < 0
    THEN divideWhileStrict(b, divisor, subtractObjects(rest, b).this, q + divisor)
    ELSE [rest |-> rest, q |-> q]

RECURSIVE divideWhile(_, _, _, _)
divideWhile(b, divisor, rest, q) ==
    IF compareObjects(b, rest) <= 0
    THEN divideWhile(b, divisor, subtractObjects(rest, b).this, q + divisor)
    ELSE [rest |-> rest, q |-> q]

\* for (i=0; i<factors.length; i++) (lines 431-441); st = [rest, q]
RECURSIVE divideFactors(_, _, _, _, _)
divideFactors(b, digit, divisor, i, st) ==
    IF i <= Len(factors) /\ assigned(st)
    THEN LET d == divisor \div factors[i]
             r1 == multiplyObjects(st.rest, fromNative(factors[i])).this
             r2 == addObjects(r1, fromNative(digit \div d)).this
         IN divideFactors(b, digit % d, d, i + 1, divideWhile(b, d, r2, st.q))
    ELSE st

\* the generic path over the limbs index..0 (lines 427-441); st = [result, rest]
RECURSIVE divideGeneric(_, _, _, _)
divideGeneric(tn, b, index, st) ==
    IF index >= 0 /\ assigned(st)
    THEN LET f == divideFactors(b, tn[index + 1], base, 1, [rest |-> st.rest, q |-> 0])
         IN divideGeneric(tn, b, index - 1, [result |-> <<f.q>> \o st.result, rest |-> f.rest])
    ELSE st

\* the loop over the limbs of this, the trimming of result and the stores into
\* this.rest and this.number (lines 416-457); b is bigNumber with sign 1
divideLimbs(t1, b, nativebigNumber) ==
    IF nativebigNumber # 0
    THEN IF isString(t1)
         \* nativerest is NaN after the last character: every limb of result is
         \* NaN and this.rest = BigNumber(NaN) is zero
         THEN returnsThis([t1 EXCEPT !.number = NaNs(StrLen(t1.error)), !.error = "",
                                     !.rest = asRest(fromNative(0))])
         ELSE LET st == divideNative(t1.number, nativebigNumber, Len(t1.number) - 1,
                                     [result |-> <<>>, nativerest |-> 0])
              IN returnsThis([t1 EXCEPT !.number = trim(st.result),
                                        !.rest = asRest(fromNative(st.nativerest))])
    ELSE IF isString(t1)
         \* digit is a character: Math.floor(digit/divisor) is NaN or 0, rest stays
         \* zero, no subtraction runs and every limb of result is 0
         THEN returnsThis([t1 EXCEPT !.number = <<0>>, !.error = "",
                                     !.rest = asRest(fromNative(0))])
         ELSE LET st == divideGeneric(t1.number, b, Len(t1.number) - 1,
                                      [result |-> <<>>, rest |-> fromNative(0)])
              IN returnsThis([t1 EXCEPT !.number = trim(st.result),
                                        !.rest = asRest(st.rest)])

\* divideObjects with the test of this.isZero() before the test of bigNumber.isZero()
divideObjectsZeroFirst(t, b0) ==
    LET nativebigNumber == IF length(b0) = 1 THEN b0.number[1] ELSE 0
        t1 == [t EXCEPT !.sign = t.sign * b0.sign]
        b == [b0 EXCEPT !.sign = 1]
    IN IF isZero(t)
       THEN returnsNew(t, fromNative(0))
       ELSE IF isZero(b0)
       THEN returnsThis([t EXCEPT !.number = <<>>, !.error = errors.divisionbyzero])
       ELSE IF length(b) = 1 /\ b.number[1] = 1
       THEN returnsThis(t1)
       ELSE divideLimbs(t1, b, nativebigNumber)

\* the tests that come before the loop (lines 398-414)
divideObjects(t, b0) ==
    LET nativebigNumber == IF length(b0) = 1 THEN b0.number[1] ELSE 0
        t1 == [t EXCEPT !.sign = t.sign * b0.sign]
        b == [b0 EXCEPT !.sign = 1]
    IN IF isZero(b0)
       THEN returnsThis([t EXCEPT !.number = <<>>, !.error = errors.divisionbyzero])
       ELSE IF isZero(t)
       THEN returnsNew(t, fromNative(0))
       ELSE IF length(b) = 1 /\ b.number[1] = 1
       THEN returnsThis(t1)
       ELSE divideLimbs(t1, b, nativebigNumber)

\* ---------------------------------------------------------------------------
\* power (lines 465-493), number already converted by +number
\* ---------------------------------------------------------------------------
\* the while loop (lines 481-490); t is this, b is bigNumber
RECURSIVE powerLoop(_, _, _)
powerLoop(t, b, n) ==
    IF n > 0 /\ assigned(t) /\ assigned(b)
    THEN IF n % 2 = 1
         THEN powerLoop(multiplyObjects(t, b).this, b, n - 1)
         ELSE powerLoop(t, multiplyObjects(b, b).this, n \div 2)
    ELSE t

power(t, n) ==
    IF n = 0 THEN returnsNew(t, fromNative(1))
    ELSE IF n = 1 THEN returnsThis(t)
    ELSE returnsThis(powerLoop([t EXCEPT !.number = <<1>>, !.error = ""], t, n))

\* ---------------------------------------------------------------------------
\* _singleDigit (lines 514-523) and toString (lines 528-542)
\* ---------------------------------------------------------------------------
RECURSIVE singleDigitLoop(_, _, _, _)
singleDigitLoop(arr, i, digit, multiplier) ==
    IF i < Len(arr) /\ digit < 10
    THEN singleDigitLoop(arr, i + 1, digit + multiplier * arr[i + 1], multiplier * base)
    ELSE digit

_singleDigit(r) ==
    LET digit == singleDigitLoop(r.number, 0, 0, 1)
    IN IF digit < 10 THEN ToString(digit) ELSE ""

\* while(!clone.isZero()) str = clone.div(ten).rest._singleDigit() + str
RECURSIVE toStringLoop(_, _)
toStringLoop(clone, str) ==
    IF ~isZero(clone) /\ assigned(str)
    THEN LET d == divideObjects(clone, fromNative(10))
         IN toStringLoop(d.this, _singleDigit(d.ret.rest) \o str)
    ELSE str

\* a limb that is NaN never becomes 0 under div(ten): the loop of toString does not end
doesNotReturn == "(toString does not return)"

toString(o) ==
    IF isString(o) THEN o.error
    ELSE IF hasNaN(o) THEN doesNotReturn
    ELSE LET s == toStringLoop(abs(o), "")
             str == IF s = "" THEN "0" ELSE s
         IN IF o.sign > 0 THEN str ELSE "-" \o str

\* ---------------------------------------------------------------------------
\* Arguments.  What a caller hands to the constructor or to a method is the
\* record [type, n, s, o]: typeof/isArray/instanceof in type, a native number
\* in n, the characters of a string or the elements of an array in s (each
\* element written as testDigit reads it, by its string conversion), an
\* instance in o.
\* ---------------------------------------------------------------------------
undefined == [type |-> "undefined", n |-> 0, s |-> <<>>, o |-> fromNative(0)]
native(n) == [type |-> "number", n |-> n, s |-> <<>>, o |-> fromNative(0)]
string(s) == [type |-> "string", n |-> 0, s |-> s, o |-> fromNative(0)]
array(s) == [type |-> "array", n |-> 0, s |-> s, o |-> fromNative(0)]
instance(o) == [type |-> "BigNumber", n |-> 0, s |-> <<>>, o |-> o]

digitChars == <<"0", "1", "2", "3", "4", "5", "6", "7", "8", "9">>

\* testDigit (lines 76-78): /^\d$/ on the string conversion of the argument;
\* parseInt of a character that is no digit is NaN, which fails it as well
testDigit(digit) == \E d \in 1..10 : digitChars[d] = digit

digitValue(digit) == (CHOOSE d \in 1..10 : digitChars[d] = digit) - 1

\* ---------------------------------------------------------------------------
\* Constructor, string and array branches (lines 146-193)
\* ---------------------------------------------------------------------------
\* the two for loops (lines 173-178, 186-191); st = [this, multipleoftens, ok]
\* addDigits going on to the next element when addDigit returns false
RECURSIVE addDigitsSkip(_, _, _)
addDigitsSkip(s, index, st) ==
    IF index >= 0 /\ assigned(st)
    THEN IF testDigit(s[index + 1])
         THEN LET term == multiplyObjects(fromNative(digitValue(s[index + 1])),
                                          st.multipleoftens).ret
              IN addDigitsSkip(s, index - 1,
                               [this |-> addObjects(st.this, term).this,
                                multipleoftens |-> multiplyObjects(st.multipleoftens, fromNative(10)).this,
                                ok |-> TRUE])
         ELSE addDigitsSkip(s, index - 1, st)
    ELSE st

RECURSIVE addDigits(_, _, _)
addDigits(s, index, st) ==
    IF index >= 0 /\ assigned(st)
    THEN IF testDigit(s[index + 1])
         THEN LET term == multiplyObjects(fromNative(digitValue(s[index + 1])),
                                          st.multipleoftens).ret
              IN addDigits(s, index - 1,
                           [this |-> addObjects(st.this, term).this,
                            multipleoftens |-> multiplyObjects(st.multipleoftens, fromNative(10)).this,
                            ok |-> TRUE])
         ELSE [st EXCEPT !.ok = FALSE]
    ELSE st

fromDigits(s0) ==
    LET signed == Len(s0) > 0 /\ (s0[1] = "-" \/ s0[1] = "+")
        sign == IF signed /\ s0[1] = "-" THEN 0 - 1 ELSE 1
        s == IF signed THEN Tail(s0) ELSE s0
        st == addDigits(s, Len(s) - 1,
                        [this |-> [number |-> <<>>, error |-> "", sign |-> 1, rest |-> nativeZero],
                         multipleoftens |-> fromNative(1), ok |-> TRUE])
    IN IF st.ok
       THEN [st.this EXCEPT !.sign = sign]
       ELSE [st.this EXCEPT !.number = <<>>, !.error = errors.invalid]

\* BigNumber(initialNumber) (lines 111-194)
BigNumber(initialNumber) ==
    IF initialNumber.type = "undefined" THEN fromNative(0)
    ELSE IF initialNumber.type = "string" /\ initialNumber.s = <<>> THEN fromNative(0)
    ELSE IF initialNumber.type = "BigNumber" THEN initialNumber.o
    ELSE IF initialNumber.type = "number" THEN fromNative(initialNumber.n)
    ELSE fromDigits(initialNumber.s)

\* ---------------------------------------------------------------------------
\* The public methods, from the argument as the caller passes it
\* ---------------------------------------------------------------------------
add(t, number) ==
    IF number.type = "undefined" THEN returnsThis(t) ELSE addObjects(t, BigNumber(number))

subtract(t, number) ==
    IF number.type = "undefined" THEN returnsThis(t) ELSE subtractObjects(t, BigNumber(number))

multiply(t, number) ==
    IF number.type = "undefined" THEN returnsThis(t) ELSE multiplyObjects(t, BigNumber(number))

divide(t, number) ==
    IF number.type = "undefined" THEN returnsThis(t) ELSE divideObjects(t, BigNumber(number))

_compare(t, number) ==
    IF number.type = "undefined" THEN 0 ELSE compareObjects(t, BigNumber(number))

\* ---------------------------------------------------------------------------
\* The integer an object stands for (valid objects only)
\* ---------------------------------------------------------------------------
RECURSIVE magnitude(_, _)
magnitude(arr, i) == IF i > Len(arr) THEN 0 ELSE arr[i] + base * magnitude(arr, i + 1)

Value(o) == o.sign * magnitude(o.number, 1)

isValid(o) == ~isString(o) /\ ~hasNaN(o)

\* ---------------------------------------------------------------------------
\* The code with another value of the variable base (line 35).  Each
\* definition below is the definition of the same name above with bs for
\* base: factorsIn(bs) is factors, addLoopIn(bs, ...) is addLoop, and so on.
\* ---------------------------------------------------------------------------
\* factorsIn without the first factor
factorsButFirst(bs) == Tail(factorise(bs, 2, <<>>, <<>>))

factorsIn(bs) == factorise(bs, 2, <<>>, <<>>)

RECURSIVE nativeLimbsIn(_, _)
nativeLimbsIn(bs, initialNumber) ==
    \* while (initialNumber>0) { push(initialNumber%bs); initialNumber=floor(initialNumber/bs) }
    IF initialNumber > 0
    THEN <<initialNumber % bs>> \o nativeLimbsIn(bs, initialNumber \div bs)
    ELSE <<>>

fromNativeIn(bs, initialNumber) ==
    IF initialNumber = 0
    THEN [number |-> <<0>>, error |-> "", sign |-> 1, rest |-> nativeZero]
    ELSE [number |-> nativeLimbsIn(bs, IF initialNumber < 0 THEN 0 - initialNumber ELSE initialNumber),
          error |-> "",
          sign |-> IF initialNumber < 0 THEN 0 - 1 ELSE 1,
          rest |-> nativeZero]

RECURSIVE addLoopIn(_, _, _, _, _, _)
addLoopIn(bs, an, bn, index, remainder, len) ==
    IF index < len \/ remainder > 0
    THEN LET sum == remainder + At(an, index) + At(bn, index)
         IN addLoopIn(bs, Put(an, index, sum % bs), bn, index + 1, sum \div bs, len)
    ELSE an

_addIn(bs, an, bn) == addLoopIn(bs, an, bn, 0, 0, Max(Len(an), Len(bn)))

RECURSIVE subtractLoopIn(_, _, _, _, _)
subtractLoopIn(bs, an, bn, index, remainder) ==
    IF index < Len(an)
    THEN LET d == an[index + 1] - (At(bn, index) + remainder)
             borrow == IF d < 0 THEN 1 ELSE 0
         IN subtractLoopIn(bs, [an EXCEPT ![index + 1] = d + borrow * bs], bn, index + 1, borrow)
    ELSE an

_subtractIn(bs, an, bn) == trim(subtractLoopIn(bs, an, bn, 0, 0))

addIntoIn(bs, a, b) ==
    IF isString(a) THEN [thrown |-> TRUE, number |-> <<>>]
    ELSE IF isString(b) \/ hasNaN(a) \/ hasNaN(b)
         THEN [thrown |-> FALSE, number |-> NaNs(Max(length(a), length(b)))]
         ELSE [thrown |-> FALSE, number |-> _addIn(bs, a.number, b.number)]

subtractIntoIn(bs, a, b) ==
    IF isString(a) THEN [thrown |-> TRUE, number |-> <<>>]
    ELSE IF isString(b)
         THEN [thrown |-> FALSE,
               number |-> [i \in 1..Len(a.number) |->
                              IF i <= StrLen(b.error) /\ (i - 1) \notin blanks(b.error)
                              THEN NaN ELSE a.number[i]]]
         ELSE [thrown |-> FALSE, number |-> _subtractIn(bs, a.number, b.number)]

subtractObjectsIn(bs, t, b) ==
    IF t.sign # b.sign
    THEN LET r == addIntoIn(bs, t, b)
         IN IF r.thrown THEN throws(t)
            ELSE returnsThis([t EXCEPT !.number = r.number])
    ELSE LET t1 == [t EXCEPT !.sign = IF compareObjects(t, b) < 0 THEN 0 - 1 ELSE 1]
             r == IF compareObjects(abs(t1), abs(b)) < 0
                  THEN subtractIntoIn(bs, b, t1)
                  ELSE subtractIntoIn(bs, t1, b)
         IN IF r.thrown THEN throws(t1)
            ELSE returnsThis([t1 EXCEPT !.number = r.number, !.error = ""])

addObjectsIn(bs, t, b) ==
    IF t.sign # b.sign
    THEN IF t.sign > 0
         THEN subtractObjectsIn(bs, t, [b EXCEPT !.sign = 1])
         ELSE \* this.sign = 1; return bigNumber.minus(this)
              LET t1 == [t EXCEPT !.sign = 1]
                  r == subtractObjectsIn(bs, b, t1)
              IN [this |-> t1, ret |-> r.this, same |-> FALSE, thrown |-> r.thrown]
    ELSE LET r == addIntoIn(bs, t, b)
         IN IF r.thrown THEN throws(t)
            ELSE returnsThis([t EXCEPT !.number = r.number])

RECURSIVE multiplyInnerIn(_, _, _, _, _, _, _)
multiplyInnerIn(bs, result, tn, bn, index, givenNumberIndex, remainder) ==
    IF givenNumberIndex < Len(bn) \/ remainder > 0
    THEN LET acc == remainder + At(result, index + givenNumberIndex)
                      + tn[index + 1] * At(bn, givenNumberIndex)
         IN multiplyInnerIn(bs, Put(result, index + givenNumberIndex, acc % bs), tn, bn,
                          index, givenNumberIndex + 1, acc \div bs)
    ELSE result

RECURSIVE multiplyOuterIn(_, _, _, _, _)
multiplyOuterIn(bs, result, tn, bn, index) ==
    IF index < Len(tn) /\ assigned(result)
    THEN multiplyOuterIn(bs, multiplyInnerIn(bs, result, tn, bn, index, 0, 0), tn, bn, index + 1)
    ELSE result

multiplyLimbsIn(bs, t, b) ==
    IF isString(t) /\ ~isString(b) /\ ~hasNaN(b)
    THEN [k \in 1..(StrLen(t.error) + Len(b.number) - 1) |->
             IF (k - 1) \in blanks(t.error) THEN 0 ELSE NaN]
    ELSE IF isString(t) \/ isString(b) \/ hasNaN(t) \/ hasNaN(b)
         THEN NaNs(length(t) + length(b) - 1)
         ELSE multiplyOuterIn(bs, <<>>, t.number, b.number, 0)

multiplyObjectsIn(bs, t, b) ==
    IF isZero(t) \/ isZero(b)
    THEN returnsNew(t, fromNativeIn(bs, 0))
    ELSE returnsThis([t EXCEPT !.sign = t.sign * b.sign,
                               !.number = multiplyLimbsIn(bs, t, b),
                               !.error = ""])

RECURSIVE divideNativeIn(_, _, _, _, _)
divideNativeIn(bs, tn, nativebigNumber, index, st) ==
    IF index >= 0
    THEN LET r1 == st.nativerest * bs + tn[index + 1]
             q == r1 \div nativebigNumber
         IN divideNativeIn(bs, tn, nativebigNumber, index - 1,
                         [result |-> <<q>> \o st.result, nativerest |-> r1 - q * nativebigNumber])
    ELSE st

RECURSIVE divideWhileIn(_, _, _, _, _)
divideWhileIn(bs, b, divisor, rest, q) ==
    IF compareObjects(b, rest) <= 0
    THEN divideWhileIn(bs, b, divisor, subtractObjectsIn(bs, rest, b).this, q + divisor)
    ELSE [rest |-> rest, q |-> q]

RECURSIVE divideFactorsIn(_, _, _, _, _, _)
divideFactorsIn(bs, b, digit, divisor, i, st) ==
    IF i <= Len(factorsIn(bs)) /\ assigned(st)
    THEN LET d == divisor \div factorsIn(bs)[i]
             r1 == multiplyObjectsIn(bs, st.rest, fromNativeIn(bs, factorsIn(bs)[i])).this
             r2 == addObjectsIn(bs, r1, fromNativeIn(bs, digit \div d)).this
         IN divideFactorsIn(bs, b, digit % d, d, i + 1, divideWhileIn(bs, b, d, r2, st.q))
    ELSE st

RECURSIVE divideGenericIn(_, _, _, _, _)
divideGenericIn(bs, tn, b, index, st) ==
    IF index >= 0 /\ assigned(st)
    THEN LET f == divideFactorsIn(bs, b, tn[index + 1], bs, 1, [rest |-> st.rest, q |-> 0])
         IN divideGenericIn(bs, tn, b, index - 1, [result |-> <<f.q>> \o st.result, rest |-> f.rest])
    ELSE st

divideLimbsIn(bs, t1, b, nativebigNumber) ==
    IF nativebigNumber # 0
    THEN IF isString(t1)
         \* nativerest is NaN after the last character: every limb of result is
         \* NaN and this.rest = BigNumberIn(bs, NaN) is zero
         THEN returnsThis([t1 EXCEPT !.number = NaNs(StrLen(t1.error)), !.error = "",
                                     !.rest = asRest(fromNativeIn(bs, 0))])
         ELSE LET st == divideNativeIn(bs, t1.number, nativebigNumber, Len(t1.number) - 1,
                                     [result |-> <<>>, nativerest |-> 0])
              IN returnsThis([t1 EXCEPT !.number = trim(st.result),
                                        !.rest = asRest(fromNativeIn(bs, st.nativerest))])
    ELSE IF isString(t1)
         \* digit is a character: Math.floor(digit/divisor) is NaN or 0, rest stays
         \* zero, no subtraction runs and every limb of result is 0
         THEN returnsThis([t1 EXCEPT !.number = <<0>>, !.error = "",
                                     !.rest = asRest(fromNativeIn(bs, 0))])
         ELSE LET st == divideGenericIn(bs, t1.number, b, Len(t1.number) - 1,
                                      [result |-> <<>>, rest |-> fromNativeIn(bs, 0)])
              IN returnsThis([t1 EXCEPT !.number = trim(st.result),
                                        !.rest = asRest(st.rest)])

divideObjectsIn(bs, t, b0) ==
    LET nativebigNumber == IF length(b0) = 1 THEN b0.number[1] ELSE 0
        t1 == [t EXCEPT !.sign = t.sign * b0.sign]
        b == [b0 EXCEPT !.sign = 1]
    IN IF isZero(b0)
       THEN returnsThis([t EXCEPT !.number = <<>>, !.error = errors.divisionbyzero])
       ELSE IF isZero(t)
       THEN returnsNew(t, fromNativeIn(bs, 0))
       ELSE IF length(b) = 1 /\ b.number[1] = 1
       THEN returnsThis(t1)
       ELSE divideLimbsIn(bs, t1, b, nativebigNumber)

RECURSIVE powerLoopIn(_, _, _, _)
powerLoopIn(bs, t, b, n) ==
    IF n > 0 /\ assigned(t) /\ assigned(b)
    THEN IF n % 2 = 1
         THEN powerLoopIn(bs, multiplyObjectsIn(bs, t, b).this, b, n - 1)
         ELSE powerLoopIn(bs, t, multiplyObjectsIn(bs, b, b).this, n \div 2)
    ELSE t

powerIn(bs, t, n) ==
    IF n = 0 THEN returnsNew(t, fromNativeIn(bs, 1))
    ELSE IF n = 1 THEN returnsThis(t)
    ELSE returnsThis(powerLoopIn(bs, [t EXCEPT !.number = <<1>>, !.error = ""], t, n))

RECURSIVE singleDigitLoopIn(_, _, _, _, _)
singleDigitLoopIn(bs, arr, i, digit, multiplier) ==
    IF i < Len(arr) /\ digit < 10
    THEN singleDigitLoopIn(bs, arr, i + 1, digit + multiplier * arr[i + 1], multiplier * bs)
    ELSE digit

_singleDigitIn(bs, r) ==
    LET digit == singleDigitLoopIn(bs, r.number, 0, 0, 1)
    IN IF digit < 10 THEN ToString(digit) ELSE ""

RECURSIVE toStringLoopIn(_, _, _)
toStringLoopIn(bs, clone, str) ==
    IF ~isZero(clone) /\ assigned(str)
    THEN LET d == divideObjectsIn(bs, clone, fromNativeIn(bs, 10))
         IN toStringLoopIn(bs, d.this, _singleDigitIn(bs, d.ret.rest) \o str)
    ELSE str

toStringIn(bs, o) ==
    IF isString(o) THEN o.error
    ELSE IF hasNaN(o) THEN doesNotReturn
    ELSE LET s == toStringLoopIn(bs, abs(o), "")
             str == IF s = "" THEN "0" ELSE s
         IN IF o.sign > 0 THEN str ELSE "-" \o str

RECURSIVE addDigitsIn(_, _, _, _)
addDigitsIn(bs, s, index, st) ==
    IF index >= 0 /\ assigned(st)
    THEN IF testDigit(s[index + 1])
         THEN LET term == multiplyObjectsIn(bs, fromNativeIn(bs, digitValue(s[index + 1])),
                                          st.multipleoftens).ret
              IN addDigitsIn(bs, s, index - 1,
                           [this |-> addObjectsIn(bs, st.this, term).this,
                            multipleoftens |-> multiplyObjectsIn(bs, st.multipleoftens, fromNativeIn(bs, 10)).this,
                            ok |-> TRUE])
         ELSE [st EXCEPT !.ok = FALSE]
    ELSE st

fromDigitsIn(bs, s0) ==
    LET signed == Len(s0) > 0 /\ (s0[1] = "-" \/ s0[1] = "+")
        sign == IF signed /\ s0[1] = "-" THEN 0 - 1 ELSE 1
        s == IF signed THEN Tail(s0) ELSE s0
        st == addDigitsIn(bs, s, Len(s) - 1,
                        [this |-> [number |-> <<>>, error |-> "", sign |-> 1, rest |-> nativeZero],
                         multipleoftens |-> fromNativeIn(bs, 1), ok |-> TRUE])
    IN IF st.ok
       THEN [st.this EXCEPT !.sign = sign]
       ELSE [st.this EXCEPT !.number = <<>>, !.error = errors.invalid]

BigNumberIn(bs, initialNumber) ==
    IF initialNumber.type = "undefined" THEN fromNativeIn(bs, 0)
    ELSE IF initialNumber.type = "string" /\ initialNumber.s = <<>> THEN fromNativeIn(bs, 0)
    ELSE IF initialNumber.type = "BigNumber" THEN initialNumber.o
    ELSE IF initialNumber.type = "number" THEN fromNativeIn(bs, initialNumber.n)
    ELSE fromDigitsIn(bs, initialNumber.s)

addIn(bs, t, number) ==
    IF number.type = "undefined" THEN returnsThis(t) ELSE addObjectsIn(bs, t, BigNumberIn(bs, number))

subtractIn(bs, t, number) ==
    IF number.type = "undefined" THEN returnsThis(t) ELSE subtractObjectsIn(bs, t, BigNumberIn(bs, number))

multiplyIn(bs, t, number) ==
    IF number.type = "undefined" THEN returnsThis(t) ELSE multiplyObjectsIn(bs, t, BigNumberIn(bs, number))

divideIn(bs, t, number) ==
    IF number.type = "undefined" THEN returnsThis(t) ELSE divideObjectsIn(bs, t, BigNumberIn(bs, number))

RECURSIVE magnitudeIn(_, _, _)
magnitudeIn(bs, arr, i) == IF i > Len(arr) THEN 0 ELSE arr[i] + bs * magnitudeIn(bs, arr, i + 1)

ValueIn(bs, o) == o.sign * magnitudeIn(bs, o.number, 1)

\* ---------------------------------------------------------------------------
\* The arguments explored
\* ---------------------------------------------------------------------------
Natives == (0 - MaxNative)..MaxNative
Chars == {"0", "1", "9", "+", "-", "s"}
Elements == Chars \cup {"14"}
Strings == UNION {[1..k -> Chars] : k \in 0..MaxLen}
Arrays == UNION {[1..k -> Elements] : k \in 0..MaxLen}

Created == {native(n) : n \in Natives} \cup {string(s) : s \in Strings}
              \cup {array(s) : s \in Arrays} \cup {undefined}

Operands == {native(n) : n \in (0 - MaxOperand)..MaxOperand}
               \cup {string(<<c>>) : c \in Chars} \cup {undefined}

\* the operands of mod: the ways to write zero, and the native numbers next to it
Zeroes == {native(n) : n \in (0 - MaxZero)..MaxZero}
             \cup {string(<<"0">>), string(<<"-", "0">>), array(<<"0">>), instance(fromNative(0))}

\* ---------------------------------------------------------------------------
\* What the calls leave outside the receiver
\* ---------------------------------------------------------------------------
\* initialNumber.shift(0) (lines 169-172): the array the caller passed, as the
\* caller holds it once the constructor has read it; the sign token is gone
shift(initialNumber) ==
    IF initialNumber.type = "array" /\ Len(initialNumber.s) > 0
          /\ (initialNumber.s[1] = "-" \/ initialNumber.s[1] = "+")
    THEN array(Tail(initialNumber.s))
    ELSE initialNumber

\* this.rest as a value a caller reads: the native 0 or the BigNumber attached
restOf(o) ==
    IF o.rest.isBigNumber
    THEN instance([number |-> o.rest.number, error |-> "", sign |-> o.rest.sign,
                   rest |-> nativeZero])
    ELSE native(0)

\* mod (lines 461-463): this.divide(number).rest
mod(t, number) ==
    [this |-> divide(t, number).this, rest |-> restOf(divide(t, number).ret)]

\* a call that returns a native value or this.rest instead of a BigNumber of
\* its own: t is the receiver it leaves
answers(t) == [this |-> t, ret |-> t, same |-> FALSE, thrown |-> FALSE]

\* divide stores a new object into this.rest (lines 453-454) when it gets past
\* the tests of lines 389-414
replacesRest(t, number) ==
    /\ number.type # "undefined"
    /\ LET b == BigNumber(number)
       IN ~isZero(b) /\ ~isZero(t) /\ ~(length(b) = 1 /\ b.number[1] = 1)

\* ---------------------------------------------------------------------------
\* State: one receiver and the last call made on it
\*   this     the receiver
\*   old      the receiver as it was when the last call started
\*   call     the last call: "BigNumber" (construction), "add", ...
\*   number   the argument of the last call, as it was passed
\*   result   what the last call left: [ret, same, thrown]
\*   given    the argument of the last call as the caller holds it afterwards
\*   answer   the value the last call returned when that is not a BigNumber of
\*            its own: a native number, or this.rest
\*   copy     a second instance made from the receiver, [made, o]
\*   aliases  the fields of the two instances that are one and the same object
\*   calls    the number of calls made since construction
\* ---------------------------------------------------------------------------
VARIABLES this, old, call, number, result, given, answer, copy, aliases, calls

vars == <<this, old, call, number, result, given, answer, copy, aliases, calls>>

outcome(r) == [ret |-> r.ret, same |-> r.same, thrown |-> r.thrown]

noCopy == [made |-> FALSE, o |-> fromNative(0)]

\* the state a construction leaves
created(initialNumber) ==
    /\ number = initialNumber
    /\ this = BigNumber(number)
    /\ old = this
    /\ call = "BigNumber"
    /\ result = outcome(returnsThis(this))
    /\ given = shift(number)
    /\ answer = undefined
    /\ copy = noCopy
    /\ aliases = {}
    /\ calls = 0

Init == \E initialNumber \in Created : created(initialNumber)

\* the receiver has just been constructed
fresh == call = "BigNumber"

\* a call on the receiver: r is what it leaves, a the native value or rest it
\* returns, al the objects the receiver still shares with the second instance
afterAll(name, arg, r, a, al) ==
    /\ this' = r.this
    /\ old' = this
    /\ call' = name
    /\ number' = arg
    /\ result' = outcome(r)
    /\ given' = IF arg.type = "undefined" THEN arg ELSE shift(arg)
    /\ answer' = a
    /\ copy' = copy
    /\ aliases' = al
    /\ calls' = calls + 1

afterWith(name, arg, r, a) == afterAll(name, arg, r, a, aliases)

after(name, arg, r) == afterWith(name, arg, r, undefined)

AddOf(Args) == \E arg \in Args \cup {instance(this)} : after("add", arg, add(this, arg))

SubtractOf(Args) ==
    \E arg \in Args \cup {instance(this)} : after("subtract", arg, subtract(this, arg))

MultiplyOf(Args) ==
    \E arg \in Args \cup {instance(this)} : after("multiply", arg, multiply(this, arg))

DivideOf(Args) ==
    \E arg \in Args \cup {instance(this)} : after("divide", arg, divide(this, arg))

PowerOf(Exps) == \E n \in Exps : after("power", native(n), power(this, n))

ModOf(Args) ==
    \E arg \in Args :
        afterWith("mod", arg, answers(mod(this, arg).this), mod(this, arg).rest)

CompareOf(Args) ==
    \E arg \in Args \cup {instance(this)} :
        afterWith("_compare", arg, answers(this), native(_compare(this, arg)))

\* BigNumber(v) a second time, on the input the first construction was given
CreateAgain ==
    /\ this' = BigNumber(given)
    /\ old' = this
    /\ call' = "BigNumber again"
    /\ number' = given
    /\ result' = outcome(returnsThis(this'))
    /\ given' = shift(given)
    /\ answer' = undefined
    /\ UNCHANGED <<copy, aliases, calls>>

Add == fresh /\ AddOf(Operands)

Subtract == fresh /\ SubtractOf(Operands)

Multiply == fresh /\ MultiplyOf(Operands)

Divide == fresh /\ DivideOf(Operands)

Power == fresh /\ PowerOf(0..MaxExp)

Mod == fresh /\ ModOf(Zeroes)

Compare == fresh /\ CompareOf(Operands)

Create == fresh /\ CreateAgain

Next == Add \/ Subtract \/ Multiply \/ Divide \/ Power \/ Mod \/ Compare \/ Create

Spec == Init /\ [][Next]_vars

\* ---------------------------------------------------------------------------
\* Sequences of calls: the receiver is created from a native integer or from
\* a string of digits, a second instance may be made from it, and calls follow
\* one another on the receiver (SpecSeq), or on the receiver, on the second
\* instance and on their rests (SpecCopy).
\* No call is made on a receiver that holds a limb NaN.
\* ---------------------------------------------------------------------------
Seeds == {native(n) : n \in (0 - MaxSeed)..MaxSeed}
            \cup {string(<<"-", "0">>), string(<<"1", "0">>), string(<<"-", "1", "9">>)}

\* native operands, the last two of two limbs
Args == {native(n) : n \in (0 - MaxArg)..MaxArg} \cup {native(base + 1), native(0 - (base + 1))}

InitSeq == \E initialNumber \in Seeds : created(initialNumber)

going(o) == calls < MaxCalls /\ ~hasNaN(o) /\ length(o) <= MaxLimbs

\* c = BigNumber(x) (lines 127-133): number is sliced, rest is the same object
MakeCopy ==
    /\ calls < MaxCalls
    /\ ~copy.made
    /\ copy' = [made |-> TRUE, o |-> BigNumber(instance(this))]
    /\ aliases' = IF this.rest.isBigNumber THEN {"rest"} ELSE {}
    /\ call' = "BigNumber copy"
    /\ old' = this
    /\ number' = instance(this)
    /\ given' = instance(this)
    /\ result' = outcome(returnsNew(this, BigNumber(instance(this))))
    /\ answer' = undefined
    /\ UNCHANGED <<this, calls>>

\* a call that works on the second instance or on a rest: x and c are what it
\* leaves of the receiver and of the second instance
elsewhere(name, arg, x, c, al) ==
    /\ this' = x
    /\ copy' = [copy EXCEPT !.o = c]
    /\ aliases' = al
    /\ call' = name
    /\ old' = this
    /\ number' = arg
    /\ given' = shift(arg)
    /\ result' = outcome(returnsThis(c))
    /\ answer' = undefined
    /\ calls' = calls + 1

\* c.add(number)
CopyAdd ==
    /\ copy.made /\ going(copy.o)
    /\ \E arg \in Args : elsewhere("copy.add", arg, this, add(copy.o, arg).this, aliases)

\* c.divide(number)
CopyDivide ==
    /\ copy.made /\ going(copy.o)
    /\ \E arg \in Args :
          elsewhere("copy.divide", arg, this, divide(copy.o, arg).this,
                    IF replacesRest(copy.o, arg) THEN aliases \ {"rest"} ELSE aliases)

\* o.rest.add(number): the object that is o.rest after the call
restAdd(o, arg) == asRest(add(restOf(o).o, arg).this)

\* c.rest.add(number)
CopyRestAdd ==
    /\ copy.made /\ going(copy.o) /\ copy.o.rest.isBigNumber
    /\ \E arg \in Args :
          elsewhere("copy.rest.add", arg,
                    IF "rest" \in aliases THEN [this EXCEPT !.rest = restAdd(copy.o, arg)]
                    ELSE this,
                    [copy.o EXCEPT !.rest = restAdd(copy.o, arg)], aliases)

\* x.rest.add(number)
RestAdd ==
    /\ going(this) /\ this.rest.isBigNumber
    /\ \E arg \in Args :
          elsewhere("rest.add", arg, [this EXCEPT !.rest = restAdd(this, arg)],
                    IF "rest" \in aliases THEN [copy.o EXCEPT !.rest = restAdd(this, arg)]
                    ELSE copy.o,
                    aliases)

SeqAdd == going(this) /\ AddOf(Args)

SeqSubtract == going(this) /\ SubtractOf(Args)

SeqMultiply == going(this) /\ MultiplyOf(Args)

SeqDivide == going(this) /\ DivideOf(Args)

SeqPower == going(this) /\ PowerOf(0..MaxPow)

\* x.divide(number) while a second instance may hold the rest of x: a division
\* that stores a new rest leaves the old one to the second instance alone
SharedDivide ==
    /\ going(this)
    /\ \E arg \in Args :
          afterAll("divide", arg, divide(this, arg), undefined,
                   IF replacesRest(this, arg) THEN aliases \ {"rest"} ELSE aliases)

NextSeq == SeqAdd \/ SeqSubtract \/ SeqMultiply \/ SeqDivide \/ SeqPower

SpecSeq == InitSeq /\ [][NextSeq]_vars

\* the calls on two instances of which one was made from the other
NextCopy ==
    \/ SeqAdd \/ SharedDivide \/ RestAdd
    \/ MakeCopy \/ CopyAdd \/ CopyDivide \/ CopyRestAdd

SpecCopy == InitSeq /\ [][NextCopy]_vars

\* ---------------------------------------------------------------------------
\* The base-10 implementation (src/lib/bignumber.js).  Its objects are the
\* same records, number holding decimal digits.  new BigNumber(number) returns
\* the instance it is given (line 53): inside a method bigNumber is the
\* caller's object, and what the method stores into it the caller sees.
\* A call leaves [this, bigNumber, shared]: the receiver, the operand, and
\* whether this.number and bigNumber.number are one array.
\* ---------------------------------------------------------------------------
RECURSIVE digits10(_)
digits10(n) == IF n > 0 THEN <<n % 10>> \o digits10(n \div 10) ELSE <<>>

\* new BigNumber(n) for a native n (lines 43-50, 71-81)
BigNumber10(n) ==
    IF n = 0 THEN fromNative(0)
    ELSE [number |-> digits10(IF n < 0 THEN 0 - n ELSE n), error |-> "",
          sign |-> IF n < 0 THEN 0 - 1 ELSE 1, rest |-> nativeZero]

\* BigNumber._add (lines 207-218)
RECURSIVE addLoop10(_, _, _, _, _)
addLoop10(an, bn, index, remainder, len) ==
    IF index < len \/ remainder > 0
    THEN LET sum == remainder + At(an, index) + At(bn, index)
         IN addLoop10(Put(an, index, sum % 10), bn, index + 1, sum \div 10, len)
    ELSE an

_add10(an, bn) == addLoop10(an, bn, 0, 0, Max(Len(an), Len(bn)))

\* BigNumber._subtract (lines 222-241)
RECURSIVE subtractLoop10(_, _, _, _)
subtractLoop10(an, bn, index, remainder) ==
    IF index < Len(an)
    THEN LET d == an[index + 1] - (At(bn, index) + remainder)
             borrow == IF d < 0 THEN 1 ELSE 0
         IN subtractLoop10([an EXCEPT ![index + 1] = d + borrow * 10], bn, index + 1, borrow)
    ELSE an

_subtract10(an, bn) == trim(subtractLoop10(an, bn, 0, 0))

\* a call that returns this, a call that returns a new zero
left(t, b, shared) == [this |-> t, bigNumber |-> b, shared |-> shared, ret |-> t, same |-> TRUE]
leftNew(t, b) ==
    [this |-> t, bigNumber |-> b, shared |-> FALSE, ret |-> fromNative(0), same |-> FALSE]

\* subtract (lines 185-204): t is this, b is bigNumber, the object passed
subtract10(t, b) ==
    IF t.sign # b.sign
    THEN left([t EXCEPT !.number = _add10(t.number, b.number)], b, FALSE)
    ELSE LET sign == IF compareObjects(t, b) < 0 THEN 0 - 1 ELSE 1
         IN IF compareObjects(abs(t), abs(b)) < 0
            \* BigNumber._subtract(bigNumber, this) works in bigNumber.number and
            \* returns that array, which becomes this.number
            THEN LET n == _subtract10(b.number, t.number)
                 IN left([t EXCEPT !.sign = sign, !.number = n], [b EXCEPT !.number = n], TRUE)
            ELSE left([t EXCEPT !.sign = sign, !.number = _subtract10(t.number, b.number)],
                      b, FALSE)

\* add (lines 162-182)
add10(t, b) ==
    IF t.sign # b.sign
    THEN IF t.sign > 0
         \* bigNumber.sign = 1; return this.minus(bigNumber)
         THEN subtract10(t, [b EXCEPT !.sign = 1])
         \* this.sign = 1; return bigNumber.minus(this)
         ELSE LET r == subtract10(b, [t EXCEPT !.sign = 1])
              IN [this |-> r.bigNumber, bigNumber |-> r.this, shared |-> r.shared,
                  ret |-> r.this, same |-> FALSE]
    ELSE left([t EXCEPT !.number = _add10(t.number, b.number)], b, FALSE)

\* multiply (lines 244-270)
RECURSIVE multiplyInner10(_, _, _, _, _, _)
multiplyInner10(res, tn, bn, index, givenNumberIndex, remainder) ==
    IF givenNumberIndex < Len(bn) \/ remainder > 0
    THEN LET acc == remainder + At(res, index + givenNumberIndex)
                      + tn[index + 1] * At(bn, givenNumberIndex)
         IN multiplyInner10(Put(res, index + givenNumberIndex, acc % 10), tn, bn,
                            index, givenNumberIndex + 1, acc \div 10)
    ELSE res

RECURSIVE multiplyOuter10(_, _, _, _)
multiplyOuter10(res, tn, bn, index) ==
    IF index < Len(tn)
    THEN multiplyOuter10(multiplyInner10(res, tn, bn, index, 0, 0), tn, bn, index + 1)
    ELSE res

multiply10(t, b) ==
    IF isZero(t) \/ isZero(b)
    THEN leftNew(t, b)
    ELSE left([t EXCEPT !.sign = t.sign * b.sign,
                        !.number = multiplyOuter10(<<>>, t.number, b.number, 0)], b, FALSE)

\* divide (lines 273-321)
\* while (bigNumber.lte(rest)) { result[index]++; rest.subtract(bigNumber) }
RECURSIVE divideWhile10(_, _, _)
divideWhile10(b, rest, q) ==
    IF compareObjects(b, rest) <= 0
    THEN divideWhile10(b, subtract10(rest, b).this, q + 1)
    ELSE [rest |-> rest, q |-> q]

\* the for loop over the digits index..0; st = [result, rest]
RECURSIVE divideLoop10(_, _, _, _)
divideLoop10(tn, b, index, st) ==
    IF index >= 0
    THEN LET r1 == multiply10(st.rest, BigNumber10(10)).this
             r2 == [r1 EXCEPT !.number = Put(r1.number, 0, tn[index + 1])]
             w == divideWhile10(b, r2, 0)
         IN divideLoop10(tn, b, index - 1, [result |-> <<w.q>> \o st.result, rest |-> w.rest])
    ELSE st

divide10(t, b) ==
    IF isZero(b)
    THEN left([t EXCEPT !.number = <<>>, !.error = errors.divisionbyzero], b, FALSE)
    ELSE IF isZero(t)
    THEN leftNew(t, b)
    \* this.sign *= bigNumber.sign; bigNumber.sign = 1
    ELSE LET t1 == [t EXCEPT !.sign = t.sign * b.sign]
             b1 == [b EXCEPT !.sign = 1]
         IN IF Len(b1.number) = 1 /\ b1.number[1] = 1
            THEN left(t1, b1, FALSE)
            ELSE LET st == divideLoop10(t1.number, b1, Len(t1.number) - 1,
                                        [result |-> <<>>, rest |-> fromNative(0)])
                 IN left([t1 EXCEPT !.number = trim(st.result), !.rest = asRest(st.rest)],
                         b1, FALSE)

\* two instances x and y made from native integers, and one call x.f(y)
InitLib ==
    \E n \in (0 - MaxLib)..MaxLib, k \in (0 - MaxLib)..MaxLib :
        /\ this = BigNumber10(n)
        /\ old = this
        /\ call = "BigNumber"
        /\ number = instance(BigNumber10(k))
        /\ given = number
        /\ result = outcome(returnsThis(this))
        /\ answer = undefined
        /\ copy = noCopy
        /\ aliases = {}
        /\ calls = 0

\* x.f(y): r is what the call leaves
after10(name, r) ==
    /\ this' = r.this
    /\ old' = this
    /\ call' = name
    /\ number' = number
    /\ given' = instance(r.bigNumber)
    /\ result' = [ret |-> r.ret, same |-> r.same, thrown |-> FALSE]
    /\ answer' = undefined
    /\ copy' = copy
    /\ aliases' = IF r.shared THEN {"number"} ELSE {}
    /\ calls' = calls + 1

Add10 == fresh /\ after10("add", add10(this, number.o))

Subtract10 == fresh /\ after10("subtract", subtract10(this, number.o))

Multiply10 == fresh /\ after10("multiply", multiply10(this, number.o))

Divide10 == fresh /\ after10("divide", divide10(this, number.o))

NextLib == Add10 \/ Subtract10 \/ Multiply10 \/ Divide10

SpecLib == InitLib /\ [][NextLib]_vars

Abs(x) == IF x < 0 THEN 0 - x ELSE x

\* ---------------------------------------------------------------------------
\* power, one iteration of its loop at a time (lines 465-493).
\*   this     the receiver, multiplied in place
\*   copy     bigNumber = BigNumber(this) (line 478), squared in place
\*   number   the local variable number, which the loop counts down
\*   given    the exponent as the caller passed it
\*   calls    the iterations made (BigNumber.stats.pows.iterations)
\*   call     "power loop" while the call is in its loop, "power" once it has
\*            returned
\* The loop is straight-line code: once entered, it runs on while number > 0.
\* ---------------------------------------------------------------------------
InitPower ==
    \E n \in (0 - MaxLoopSeed)..MaxLoopSeed : created(native(n))

\* the tests of lines 466-476
PowerReturnsEarly ==
    /\ fresh
    /\ \E n \in 0..1 :
          /\ number' = native(n)
          /\ given' = native(n)
          /\ result' = outcome(power(this, n))
          /\ this' = power(this, n).this
    /\ old' = this
    /\ call' = "power"
    /\ calls' = 0
    /\ UNCHANGED <<answer, copy, aliases>>

\* lines 478-480: the copy is made and the receiver is set to 1
PowerEnters ==
    /\ fresh
    /\ \E n \in 2..MaxLongExp :
          /\ n <= MaxLoopExp \/ Abs(Value(this)) <= 1
          /\ number' = native(n)
          /\ given' = native(n)
    /\ copy' = [made |-> TRUE, o |-> BigNumber(instance(this))]
    /\ this' = [this EXCEPT !.number = <<1>>, !.error = ""]
    /\ old' = this
    /\ call' = "power loop"
    /\ calls' = 0
    /\ UNCHANGED <<result, answer, aliases>>

\* an iteration on an odd number that leaves number as it is
PowerOddStuck ==
    /\ call = "power loop"
    /\ number.n > 0 /\ number.n % 2 = 1
    /\ this' = multiplyObjects(this, copy.o).this
    /\ calls' = calls + 1
    /\ UNCHANGED <<old, call, number, result, given, answer, copy, aliases>>

\* lines 483-487: this.multiply(bigNumber); number--
PowerOdd ==
    /\ call = "power loop"
    /\ number.n > 0 /\ number.n % 2 = 1
    /\ this' = multiplyObjects(this, copy.o).this
    /\ number' = native(number.n - 1)
    /\ calls' = calls + 1
    /\ UNCHANGED <<old, call, result, given, answer, copy, aliases>>

\* lines 488-489: bigNumber.multiply(bigNumber); number = Math.floor(number / 2)
PowerEven ==
    /\ call = "power loop"
    /\ number.n > 0 /\ number.n % 2 = 0
    /\ copy' = [copy EXCEPT !.o = multiplyObjects(copy.o, copy.o).this]
    /\ number' = native(number.n \div 2)
    /\ calls' = calls + 1
    /\ UNCHANGED <<this, old, call, result, given, answer, aliases>>

\* lines 481, 491-492: number > 0 fails and power returns this
PowerReturns ==
    /\ call = "power loop"
    /\ ~(number.n > 0)
    /\ call' = "power"
    /\ result' = outcome(returnsThis(this))
    /\ UNCHANGED <<this, old, number, given, answer, copy, aliases, calls>>

NextPower == PowerReturnsEarly \/ PowerEnters \/ PowerOdd \/ PowerEven \/ PowerReturns

SpecPower == InitPower /\ [][NextPower]_vars /\ WF_vars(NextPower)

\* ---------------------------------------------------------------------------
\* Vocabulary of the properties
\* ---------------------------------------------------------------------------
\* bigNumber: the argument of the last call as the method converted it
bigNumber == BigNumber(number)

\* the last call was `name` with a valid receiver and a valid argument
arith(name) ==
    /\ call = name
    /\ number.type # "undefined"
    /\ isValid(old)
    /\ isValid(bigNumber)

ret == result.ret
\* at least one limb, and a zero is written with sign 1
proper(o) == Len(o.number) >= 1 /\ (Value(o) = 0 => o.sign = 1)

\* two objects with the same sign and the same limbs
same(x, y) == x.sign = y.sign /\ x.number = y.number

DigitSet == {"0", "1", "2", "3", "4", "5", "6", "7", "8", "9"}

\* the characters of a decimal string after its optional sign
body(s) == IF Len(s) > 0 /\ s[1] \in {"+", "-"} THEN Tail(s) ELSE s

\* optional sign followed by one or more digits
wellFormed(s) == Len(body(s)) >= 1 /\ \A i \in 1..Len(body(s)) : body(s)[i] \in DigitSet

RECURSIVE stripZeroes(_)
stripZeroes(digits) ==
    IF Len(digits) > 1 /\ digits[1] = "0" THEN stripZeroes(Tail(digits)) ELSE digits

RECURSIVE text(_)
text(digits) == IF digits = <<>> THEN "" ELSE digits[1] \o text(Tail(digits))

\* the sign-normalized form of a well-formed decimal string
normalize(s) ==
    LET digits == stripZeroes(body(s))
    IN IF digits = <<"0">> THEN "0"
       ELSE IF s[1] = "-" THEN "-" \o text(digits) ELSE text(digits)

\* ---------------------------------------------------------------------------
\* C1  Division identity: after q = create(a).divide(b) with b nonzero,
\*     value(q) * b + value(q.rest) = a.
\*     The code attaches a remainder that is never negative, so the identity
\*     fails for a negative dividend that b does not divide.
\* ---------------------------------------------------------------------------
C1_DivisionIdentity ==
    (arith("divide") /\ Value(bigNumber) # 0)
        => Value(ret) * Value(bigNumber) + Value(ret.rest) = Value(old)

\* ---------------------------------------------------------------------------
\* C2  Remainder bound: the remainder r that create(a).divide(b) attaches to
\*     the receiver satisfies 0 <= |r| < |b|, on the native path and on the
\*     generic path.
\* ---------------------------------------------------------------------------
C2_RemainderBound ==
    (arith("divide") /\ Value(bigNumber) # 0)
        => /\ \A i \in 1..Len(this.rest.number) : this.rest.number[i] \in 0..(base - 1)
           /\ 0 <= Abs(Value(this.rest))
           /\ Abs(Value(this.rest)) < Abs(Value(bigNumber))

\* generic path, a quotient of several limbs and a remainder that is not zero
C2_Witness ==
    /\ arith("divide")
    /\ Len(bigNumber.number) > 1
    /\ Len(this.number) > 1
    /\ Value(this.rest) > 0

\* ---------------------------------------------------------------------------
\* C3  Quotient of divide: the value create(a).divide(b) returns has magnitude
\*     floor(|a| / |b|) and sign equal to the product of the operand signs.
\*     As stated (C3_QuotientSignAlways) it fails for a zero dividend and a
\*     negative divisor, where the code returns the zero of sign 1.  Amended
\*     (C3_Quotient): the magnitude is floor(|a| / |b|); the sign is the
\*     product of the operand signs when the quotient is not zero, and a zero
\*     dividend returns zero with sign 1.
\* ---------------------------------------------------------------------------
C3_QuotientSignAlways ==
    (arith("divide") /\ Value(bigNumber) # 0)
        => /\ magnitude(ret.number, 1) = Abs(Value(old)) \div Abs(Value(bigNumber))
           /\ ret.sign = old.sign * bigNumber.sign

C3_Quotient ==
    (arith("divide") /\ Value(bigNumber) # 0)
        => /\ ~result.thrown
           /\ magnitude(ret.number, 1) = Abs(Value(old)) \div Abs(Value(bigNumber))
           /\ (magnitude(ret.number, 1) # 0 => ret.sign = old.sign * bigNumber.sign)
           /\ (Value(old) = 0 => ret.sign = 1)

\* a negative dividend of several limbs, a negative divisor, a quotient of several limbs
C3_Witness ==
    /\ arith("divide")
    /\ old.sign = 0 - 1
    /\ bigNumber.sign = 0 - 1
    /\ Len(old.number) > 1
    /\ Len(ret.number) > 1

\* ---------------------------------------------------------------------------
\* C4  Decimal round-trip: for every string s made of an optional sign and one
\*     or more digits, toString(create(s)) is the sign-normalized form of s.
\*     The code keeps the sign of "-0" and prints "-0".
\* ---------------------------------------------------------------------------
C4_RoundTrip ==
    (call = "BigNumber" /\ number.type = "string" /\ wellFormed(number.s))
        => toString(this) = normalize(number.s)

\* ---------------------------------------------------------------------------
\* C5  Division by zero: for every dividend, zero included, divide by a
\*     divisor equal to zero leaves the receiver in the DivisionByZero state
\*     and toString returns "Invalid Number - Division By Zero".
\* ---------------------------------------------------------------------------
C5_DivisionByZero ==
    (call = "divide" /\ number.type # "undefined"
        /\ isValid(bigNumber) /\ Value(bigNumber) = 0)
        => /\ ~result.thrown
           /\ result.same
           /\ this.error = errors.divisionbyzero
           /\ toString(ret) = "Invalid Number - Division By Zero"

\* zero divided by zero
C5_Witness ==
    /\ call = "divide"
    /\ number = native(0)
    /\ isValid(old)
    /\ old.number = <<0>>
    /\ toString(this) = "Invalid Number - Division By Zero"

\* ---------------------------------------------------------------------------
\* C6  Invalid input: a string or an array that holds, after the optional
\*     leading sign, anything that is not a single decimal digit yields the
\*     InvalidFormat state, wherever the offending element stands and whatever
\*     was processed before it; toString returns "Invalid Number".
\* ---------------------------------------------------------------------------
C6_InvalidInput ==
    (call = "BigNumber" /\ number.type \in {"string", "array"}
        /\ \E i \in 1..Len(body(number.s)) : body(number.s)[i] \notin DigitSet)
        => /\ this.error = errors.invalid
           /\ toString(this) = "Invalid Number"

\* the element 14 in the middle of an array: a digit has been added before it is met
C6_Witness ==
    /\ call = "BigNumber"
    /\ number = array(<<"9", "14", "1">>)
    /\ toString(this) = "Invalid Number"

\* ---------------------------------------------------------------------------
\* C7  Sticky errors: once a value is in an error state, every later add,
\*     subtract, multiply, divide or power with that value as receiver or as
\*     operand yields a result in the same error state, never a number.
\*     The code does not test for the state: the methods throw, return a
\*     number, or leave limbs that are NaN.
\* ---------------------------------------------------------------------------
C7_StickyErrors ==
    /\ (call \in {"add", "subtract", "multiply", "divide", "power"} /\ isString(old))
           => (~result.thrown /\ isString(ret) /\ toString(ret) = old.error)
    /\ (call \in {"add", "subtract", "multiply", "divide"}
           /\ number.type # "undefined" /\ ~isString(old) /\ isString(bigNumber))
           => (~result.thrown /\ isString(ret) /\ toString(ret) = bigNumber.error)

\* ---------------------------------------------------------------------------
\* C8  Signed add and subtract: create(a).add(b) returns a + b and
\*     create(a).subtract(b) returns a - b for every combination of signs and
\*     of limb counts, with the right sign on both sides of the zero crossing
\*     (and sign 1 on a zero result of operands that are properly signed).
\* ---------------------------------------------------------------------------
C8_SignedAddSubtract ==
    /\ arith("add") => (~result.thrown /\ Value(ret) = Value(old) + Value(bigNumber))
    /\ arith("subtract") => (~result.thrown /\ Value(ret) = Value(old) - Value(bigNumber))
    /\ ((arith("add") \/ arith("subtract")) /\ proper(old) /\ proper(bigNumber))
           => proper(ret)

\* a negative receiver plus a longer positive operand: the sum crosses zero
C8_Witness ==
    /\ arith("add")
    /\ old.sign = 0 - 1
    /\ bigNumber.sign = 1
    /\ Len(old.number) < Len(bigNumber.number)
    /\ Value(ret) > 0

\* ---------------------------------------------------------------------------
\* C9  Addition is commutative and associative on values, compared by sign
\*     and limbs, each side evaluated on fresh instances: add(a,b) = add(b,a)
\*     and add(add(a,b),c) = add(a,add(b,c)).  Here a is the receiver of the
\*     call, b its argument, and c ranges over the native operands.
\* ---------------------------------------------------------------------------
C9_AddCommutesAssociates ==
    arith("add")
        => /\ same(ret, addObjects(bigNumber, old).ret)
           /\ \A c \in (0 - MaxOperand)..MaxOperand :
                  same(addObjects(ret, fromNative(c)).ret,
                       addObjects(old, addObjects(bigNumber, fromNative(c)).ret).ret)

\* operands of opposite signs and of different lengths, the negative one the larger
C9_Witness ==
    /\ arith("add")
    /\ old.sign = 1
    /\ bigNumber.sign = 0 - 1
    /\ Len(old.number) < Len(bigNumber.number)
    /\ Value(ret) < 0

\* ---------------------------------------------------------------------------
\* C10 Multiplication: create(a).multiply(b) returns a * b with sign the
\*     product of the operand signs; multiply(a, 0) and multiply(0, a) return
\*     the zero [0] with sign 1; multiply(a, 1) returns a value equal to a.
\* ---------------------------------------------------------------------------
C10_Multiply ==
    arith("multiply")
        => /\ ~result.thrown
           /\ Value(ret) = Value(old) * Value(bigNumber)
           /\ ((Value(old) # 0 /\ Value(bigNumber) # 0)
                  => ret.sign = old.sign * bigNumber.sign)
           /\ ((Value(old) = 0 \/ Value(bigNumber) = 0)
                  => (ret.number = <<0>> /\ ret.sign = 1))
           /\ (Value(bigNumber) = 1 => Value(ret) = Value(old))

\* operands of several limbs each and of opposite signs
C10_Witness ==
    /\ arith("multiply")
    /\ Len(old.number) > 1
    /\ Len(bigNumber.number) > 1
    /\ old.sign # bigNumber.sign
    /\ Len(ret.number) > 2

\* ---------------------------------------------------------------------------
\* Vocabulary of the properties about power, _compare, mod and the constructor
\* ---------------------------------------------------------------------------
RECURSIVE Pow(_, _)
Pow(x, n) == IF n = 0 THEN 1 ELSE x * Pow(x, n - 1)

Sgn(x) == IF x > 0 THEN 1 ELSE IF x < 0 THEN 0 - 1 ELSE 0

\* the last call was power, on a valid receiver
powered == call = "power" /\ isValid(old)

\* the text a caller gets from a value a call returned, by its toString
render(a) == IF a.type = "number" THEN ToString(a.n) ELSE toString(a.o)

\* ---------------------------------------------------------------------------
\* C11 Exponent laws, for every receiver a (positive, negative or zero) and
\*     exponents m, n >= 0: power(a, 0) = 1, power(a, 1) = a, and
\*     power(a, m + n) = multiply(power(a, m), power(a, n)), each side on its own
\*     copy of a.
\*     power starts from this.number = [1] and multiplies; multiply returns a
\*     new zero and leaves the receiver alone when an operand is zero, and the
\*     receiver keeps its sign while the squared copy loses it.
\* ---------------------------------------------------------------------------
C11_ExponentLaws ==
    powered
        => /\ (number.n = 0 => (ret.number = <<1>> /\ ret.sign = 1))
           /\ (number.n = 1 => same(ret, old))
           /\ \A m \in 0..number.n :
                  same(ret, multiplyObjects(power(old, m).ret,
                                            power(old, number.n - m).ret).ret)

\* ---------------------------------------------------------------------------
\* C12 power raises the receiver to the given power: for every nonzero a and
\*     native n >= 0, create(a).power(n) has the value a^n: magnitude |a|^n,
\*     sign 1 when n is even and the sign of a when n is odd.
\*     For a negative receiver the code returns -|a|^n for n = 2.
\* ---------------------------------------------------------------------------
C12_Power ==
    (powered /\ Value(old) # 0)
        => /\ ~result.thrown
           /\ magnitude(ret.number, 1) = Pow(Abs(Value(old)), number.n)
           /\ ret.sign = (IF number.n % 2 = 0 THEN 1 ELSE old.sign)

\* ---------------------------------------------------------------------------
\* C13 The comparator agrees with the integer order: _compare(a, b) is the
\*     sign of value(a) - value(b), for every constructible a and b, signed
\*     zero included.
\*     The code compares the signs first: a zero of sign -1 is below zero.
\* ---------------------------------------------------------------------------
C13_CompareIsIntegerOrder ==
    arith("_compare") => answer.n = Sgn(Value(old) - Value(bigNumber))

\* ---------------------------------------------------------------------------
\* C14 Zero is never negative: a valid value of magnitude zero, constructed or
\*     left or returned by a call, has sign 1 and toString renders it "0".
\*     The constructor keeps the sign of "-0", and divide multiplies the signs
\*     before it computes a quotient that may be zero.
\* ---------------------------------------------------------------------------
C14_ZeroIsPositive ==
    \A o \in {this, ret} :
        (isValid(o) /\ Len(o.number) >= 1 /\ magnitude(o.number, 1) = 0)
            => (o.sign = 1 /\ toString(o) = "0")

\* ---------------------------------------------------------------------------
\* C16 Construction does not mutate its input: after create(v), and after v
\*     has been the operand of a call, v holds the elements it held before,
\*     so that constructing twice from the same array gives two equal values.
\*     The code takes a leading sign token out of the caller's array
\*     (initialNumber.shift(0)): the second value of ["-", 9] is 9.
\* ---------------------------------------------------------------------------
C16_InputNotMutated ==
    /\ given = number
    /\ call = "BigNumber again" => (same(this, old) /\ this.error = old.error)

\* ---------------------------------------------------------------------------
\* C19 mod reports the outcome of its division: a.mod(0) returns a value that
\*     renders as "Invalid Number - Division By Zero".
\*     The code returns this.rest of the receiver it has just put in the
\*     error state: the native number 0.
\* ---------------------------------------------------------------------------
C19_ModByZero ==
    (call = "mod" /\ number.type # "undefined"
        /\ isValid(bigNumber) /\ Len(bigNumber.number) >= 1 /\ Value(bigNumber) = 0)
        => render(answer) = "Invalid Number - Division By Zero"

\* ---------------------------------------------------------------------------
\* C15 Canonical form is restored by every arithmetic call: starting from
\*     native integers or valid digit strings, after any sequence of add,
\*     subtract, multiply, divide and power, every valid result (receiver,
\*     returned value, attached rest) has limbs in [0, base) and a top limb
\*     that is not zero unless the limbs are exactly [0].
\* ---------------------------------------------------------------------------
canonical(arr) ==
    /\ Len(arr) >= 1
    /\ \A i \in 1..Len(arr) : arr[i] \in 0..(base - 1)
    /\ (arr[Len(arr)] # 0 \/ arr = <<0>>)

C17_CopySharesNothing ==
    [][/\ call' = "BigNumber copy" => copy'.o = this
       /\ (copy.made /\ call' \in {"copy.add", "copy.divide", "copy.rest.add"})
              => this' = this
       /\ (copy.made /\ call' \in {"add", "subtract", "multiply", "divide", "power", "rest.add"})
              => copy' = copy]_vars

\* ---------------------------------------------------------------------------
\* C18 The rest is overwritten by each new division: after x.divide(d), d not
\*     zero (1 and -1 included), that follows earlier calls on x, the
\*     magnitude of x.rest is the remainder of this division.
\*     divide returns before it stores this.rest when the divisor is 1 or -1
\*     and when the dividend is zero: x keeps the rest of an earlier division.
\* ---------------------------------------------------------------------------
C18_RestOverwritten ==
    (arith("divide") /\ Value(bigNumber) # 0)
        => Abs(Value(this.rest)) = Abs(Value(old)) % Abs(Value(bigNumber))

\* ---------------------------------------------------------------------------
\* C20 Operands are read-only in the base-10 implementation: after x.add(y),
\*     x.subtract(y), x.multiply(y) or x.divide(y) the instance y has the sign
\*     and the digits it had before, and x and y do not hold one digit array.
\*     new BigNumber(y) is y itself there: add and divide store into its sign,
\*     subtract works in its digit array and hands that array to the receiver.
\* ---------------------------------------------------------------------------
C20_OperandReadOnly ==
    call \in {"add", "subtract", "multiply", "divide"}
        => /\ given.o.sign = number.o.sign
           /\ given.o.number = number.o.number
           /\ "number" \notin aliases

\* ---------------------------------------------------------------------------
\* C21 Fluent in-place update: add and subtract with any operands, and
\*     multiply and divide when neither operand is zero, return the receiver
\*     itself, and the receiver then holds the result of the operation.
\*     add on a negative receiver and a non-negative operand stores sign 1
\*     into the receiver and returns bigNumber.minus(this), another object
\*     (lines 284-285): the receiver is left holding |x|.
\* ---------------------------------------------------------------------------
C21_FluentInPlace ==
    /\ arith("add")
          => (~result.thrown /\ result.same /\ Value(this) = Value(old) + Value(bigNumber))
    /\ arith("subtract")
          => (~result.thrown /\ result.same /\ Value(this) = Value(old) - Value(bigNumber))
    /\ (arith("multiply") /\ Value(old) # 0 /\ Value(bigNumber) # 0)
          => (~result.thrown /\ result.same /\ Value(this) = Value(old) * Value(bigNumber))
    /\ (arith("divide") /\ Value(old) # 0 /\ Value(bigNumber) # 0)
          => (~result.thrown /\ result.same
              /\ magnitude(this.number, 1) = Abs(Value(old)) \div Abs(Value(bigNumber)))

\* ---------------------------------------------------------------------------
\* C22 Construction never yields an empty limb sequence: every input that is
\*     not rejected as invalid - the strings "+" and "-", the empty array and
\*     an array holding only a sign token included - gives a value of at least
\*     one limb, zero being exactly [0].
\*     For these inputs the loops of lines 173-178 and 186-191 do not run and
\*     this.number stays the empty array of line 117.
\* ---------------------------------------------------------------------------
C22_NeverEmpty ==
    (call = "BigNumber" /\ ~isString(this))
        => /\ Len(this.number) >= 1
           /\ (magnitude(this.number, 1) = 0 => this.number = <<0>>)

\* ---------------------------------------------------------------------------
\* C28 Zero base in power: for the zero value, power(n) returns zero for every
\*     native n >= 1 and returns 1 for n = 0.
\*     For n >= 2 the loop starts from this.number = [1] and every multiply by
\*     the zero copy returns a new zero without touching the receiver: power
\*     returns the receiver, which holds 1.
\* ---------------------------------------------------------------------------
C28_ZeroBase ==
    (powered /\ Len(old.number) >= 1 /\ Value(old) = 0)
        => /\ ~result.thrown
           /\ (number.n >= 1 => (Len(ret.number) >= 1 /\ Value(ret) = 0))
           /\ (number.n = 0 => (ret.number = <<1>> /\ ret.sign = 1))

\* ---------------------------------------------------------------------------
\* Vocabulary of the properties about the two paths of divide
\* ---------------------------------------------------------------------------
\* nativebigNumber (line 398): the only limb of the divisor, or 0
nativebigNumber(b) == IF length(b) = 1 THEN b.number[1] ELSE 0

\* what the generic path (lines 427-441) leaves for the operands of the last call
genericPath ==
    divideGeneric(old.number, abs(bigNumber), Len(old.number) - 1,
                  [result |-> <<>>, rest |-> fromNative(0)])

\* ---------------------------------------------------------------------------
\* C27 The fast path agrees with the generic path: divide leaves the generic
\*     path aside exactly when the divisor has a single limb (|divisor| <
\*     base), and for every dividend and every such divisor that is not zero
\*     the call on a newly created receiver returns the quotient limbs, and
\*     leaves the remainder value, that the generic factor-segmented path
\*     gives for the same operands.
\* ---------------------------------------------------------------------------
C27_FastPathAgrees ==
    (arith("divide") /\ canonical(old.number) /\ ~isZero(bigNumber))
        => /\ (nativebigNumber(bigNumber) # 0) <=> (Abs(Value(bigNumber)) < base)
           /\ (nativebigNumber(bigNumber) # 0)
                 => /\ ~result.thrown
                    /\ ret.number = trim(genericPath.result)
                    /\ Value(ret.rest) = Value(genericPath.rest)

\* a dividend of two limbs, a divisor of one limb, a quotient of two limbs and
\* a remainder that is not zero
C27_Witness ==
    /\ arith("divide")
    /\ nativebigNumber(bigNumber) > 1
    /\ Len(old.number) > 1
    /\ Len(this.number) > 1
    /\ Value(this.rest) > 0

\* ---------------------------------------------------------------------------
\* The base of the code (line 35) and the exact range of native arithmetic.
\* The range is given by exponents of two: 2^53 itself is beyond the integers
\* TLC computes with.
\* ---------------------------------------------------------------------------
\* a base of 2^27
codeBaseTooLarge == 2^27

\* var base=Math.pow(2,25)
codeBase == 2^25

RECURSIVE log2(_)
log2(n) == IF n <= 1 THEN 0 ELSE 1 + log2(n \div 2)

isPowerOfTwo(n) == n >= 1 /\ 2^log2(n) = n

\* for a power of two n: n * n <= 2^bits
squareWithin(n, bits) == 2 * log2(n) <= bits

\* ---------------------------------------------------------------------------
\* C23 Choice of the base: the base the code fixes, 2^25, is the largest power
\*     of two whose square does not exceed 2^53, the largest magnitude up to
\*     which native arithmetic holds every integer exactly.
\*     As stated (C23_LargestExactPower) it fails: the square of 2^26 is 2^52,
\*     within 2^53 as well.  Amended (C23_BaseChoice): 2^25 is a power of two
\*     whose square, 2^50, does not exceed 2^53, and it is the largest power
\*     of two whose square does not exceed 2^50, the range the comment of
\*     lines 17-22 takes as exact.  Both are stated of the engine as it is
\*     when a value has been created.
\* ---------------------------------------------------------------------------
C23_LargestExactPower ==
    fresh => /\ isPowerOfTwo(codeBase)
             /\ squareWithin(codeBase, 53)
             /\ ~squareWithin(2 * codeBase, 53)

C23_BaseChoice ==
    fresh => /\ isPowerOfTwo(codeBase)
             /\ squareWithin(codeBase, 53)
             /\ squareWithin(codeBase, 50)
             /\ ~squareWithin(2 * codeBase, 50)

\* the engine is loaded with its base and a value has been created; twice the
\* base is a power of two whose square is still within 2^53
C23_Witness ==
    /\ fresh
    /\ isValid(this)
    /\ isPowerOfTwo(2 * codeBase)
    /\ squareWithin(2 * codeBase, 53)

\* ---------------------------------------------------------------------------
\* C29 power terminates: for every native exponent n >= 0 the loop of power
\*     reaches number = 0 and power returns; number is smaller after every
\*     iteration (an odd number is decremented, an even one is halved), and
\*     the loop makes at most 2 * floor(log2 n) + 2 iterations.  What it
\*     returns is what power returns as a whole.
\* ---------------------------------------------------------------------------
C29_PowerTerminates ==
    /\ [](call \in {"power loop", "power"} => calls <= 2 * log2(given.n) + 2)
    /\ [](call = "power" => (same(ret, power(old, given.n).ret) /\ ~result.thrown))
    /\ [][(call = "power loop" /\ calls' = calls + 1)
             => /\ number'.n < number.n
                /\ number'.n >= 0
                /\ (number.n % 2 = 1 => number'.n = number.n - 1)
                /\ (number.n % 2 = 0 => number'.n = number.n \div 2)]_vars
    /\ (call = "power loop") ~> (call = "power" /\ number.n = 0)

\* the power 7 of a receiver of magnitude 2 has returned: five iterations,
\* three of them on an odd number
C29_Witness ==
    /\ call = "power"
    /\ given.n = 7
    /\ calls = 5
    /\ Abs(Value(old)) = 2
    /\ Len(ret.number) > 1

\* ---------------------------------------------------------------------------
\* The intermediate values of the limb loops: the loops of _add (lines 322-326),
\* multiply (lines 373-380) and the native path of divide (lines 418-424) once
\* more, keeping the largest value each native variable takes.
\* ---------------------------------------------------------------------------
noPeak == [sum |-> 0, carry |-> 0]

\* sum: remainder after remainder += ...; carry: remainder after Math.floor(remainder / base)
seen(peak, sum) == [sum |-> Max(peak.sum, sum), carry |-> Max(peak.carry, sum \div base)]

RECURSIVE addPeak(_, _, _, _, _, _)
addPeak(an, bn, index, remainder, len, peak) ==
    IF index < len \/ remainder > 0
    THEN LET sum == remainder + At(an, index) + At(bn, index)
         IN addPeak(Put(an, index, sum % base), bn, index + 1, sum \div base, len, seen(peak, sum))
    ELSE peak

\* st = [result, peak]
\* multiplyInnerPeak without % base: the accumulator is stored whole
RECURSIVE multiplyInnerPeakNoModulo(_, _, _, _, _, _)
multiplyInnerPeakNoModulo(st, tn, bn, index, givenNumberIndex, remainder) ==
    IF givenNumberIndex < Len(bn) \/ remainder > 0
    THEN LET acc == remainder + At(st.result, index + givenNumberIndex)
                      + tn[index + 1] * At(bn, givenNumberIndex)
         IN multiplyInnerPeakNoModulo([result |-> Put(st.result, index + givenNumberIndex, acc),
                                       peak |-> seen(st.peak, acc)],
                                      tn, bn, index, givenNumberIndex + 1, acc \div base)
    ELSE st

RECURSIVE multiplyInnerPeak(_, _, _, _, _, _)
multiplyInnerPeak(st, tn, bn, index, givenNumberIndex, remainder) ==
    IF givenNumberIndex < Len(bn) \/ remainder > 0
    THEN LET acc == remainder + At(st.result, index + givenNumberIndex)
                      + tn[index + 1] * At(bn, givenNumberIndex)
         IN multiplyInnerPeak([result |-> Put(st.result, index + givenNumberIndex, acc % base),
                               peak |-> seen(st.peak, acc)],
                              tn, bn, index, givenNumberIndex + 1, acc \div base)
    ELSE st

RECURSIVE multiplyOuterPeak(_, _, _, _)
multiplyOuterPeak(st, tn, bn, index) ==
    IF index < Len(tn) /\ assigned(st)
    THEN multiplyOuterPeak(multiplyInnerPeak(st, tn, bn, index, 0, 0), tn, bn, index + 1)
    ELSE st

multiplyPeak(tn, bn) == multiplyOuterPeak([result |-> <<>>, peak |-> noPeak], tn, bn, 0).peak

\* the largest value of nativerest after nativerest += this.number[index] (line 420)
RECURSIVE divideNativePeak(_, _, _, _, _)
divideNativePeak(tn, nativeDivisor, index, nativerest, peak) ==
    IF index >= 0
    THEN LET r1 == nativerest * base + tn[index + 1]
             q == r1 \div nativeDivisor
         IN divideNativePeak(tn, nativeDivisor, index - 1, r1 - q * nativeDivisor, Max(peak, r1))
    ELSE peak

\* Canonical operands of at most MaxPeakLen limbs, each limb one of the
\* smallest and the largest a limb can be and the one in the middle
LimbValues == {0, 1, base \div 2, base - 1}

Limbs == {s \in UNION {[1..k -> LimbValues] : k \in 1..MaxPeakLen} : canonical(s)}

limbsOf(s, sign) == instance([number |-> s, error |-> "", sign |-> sign, rest |-> nativeZero])

InitLimbs == \E s \in Limbs, sign \in {1, 0 - 1} : created(limbsOf(s, sign))

LimbOperands == {limbsOf(s, 1) : s \in Limbs}

LimbsAdd == fresh /\ \E arg \in LimbOperands : after("add", arg, add(this, arg))

LimbsSubtract == fresh /\ \E arg \in LimbOperands : after("subtract", arg, subtract(this, arg))

LimbsMultiply == fresh /\ \E arg \in LimbOperands : after("multiply", arg, multiply(this, arg))

LimbsDivide == fresh /\ \E arg \in LimbOperands : after("divide", arg, divide(this, arg))

NextLimbs == LimbsAdd \/ LimbsSubtract \/ LimbsMultiply \/ LimbsDivide

SpecLimbs == InitLimbs /\ [][NextLimbs]_vars

\* the last call ran the loop of _add: add on equal signs (line 288), subtract
\* on different signs (line 301)
ranAdd ==
    \/ arith("add") /\ old.sign = bigNumber.sign
    \/ arith("subtract") /\ old.sign # bigNumber.sign

\* the last call ran the loops of multiply (neither factor is zero, line 367)
ranMultiply == arith("multiply") /\ ~isZero(old) /\ ~isZero(bigNumber)

\* the last call ran the native path of divide
ranNative ==
    /\ arith("divide") /\ ~isZero(old) /\ ~isZero(bigNumber)
    /\ ~(length(bigNumber) = 1 /\ bigNumber.number[1] = 1)
    /\ nativebigNumber(bigNumber) # 0

peakOfAdd == addPeak(old.number, bigNumber.number, 0, 0,
                     Max(Len(old.number), Len(bigNumber.number)), noPeak)

peakOfMultiply == multiplyPeak(old.number, bigNumber.number)

peakOfNative ==
    divideNativePeak(old.number, nativebigNumber(bigNumber), Len(old.number) - 1, 0, 0)

\* ---------------------------------------------------------------------------
\* C24  No precision loss in limb arithmetic: on canonical operands every
\*      accumulator of multiply (limb already in result + product of two limbs
\*      + carry) is at most base^2 - 1, every carry of _add and of multiply is
\*      below base, the running remainder of the native path of divide, times
\*      base plus a limb, is below base^2, and with the base of the code,
\*      2^25, base^2 is within the 53 bits a native number holds exactly.
\* ---------------------------------------------------------------------------
C24_NoPrecisionLoss ==
    (canonical(old.number) /\ isValid(bigNumber) /\ canonical(bigNumber.number))
        => /\ ranAdd => (peakOfAdd.carry < base /\ peakOfAdd.sum <= base * base - 1)
           /\ ranMultiply => /\ peakOfMultiply.sum <= base * base - 1
                             /\ peakOfMultiply.carry < base
           /\ ranNative => peakOfNative < base * base
           /\ squareWithin(codeBase, 53)

\* two factors of two limbs: an accumulator larger than the product of two
\* limbs plus the largest carry, that is, the limb already in result counts
C24_Witness ==
    /\ ranMultiply
    /\ canonical(old.number) /\ canonical(bigNumber.number)
    /\ peakOfMultiply.sum > (base - 1) * (base - 1) + (base - 1)
    /\ peakOfMultiply.carry = base - 1
    /\ magnitude(this.number, 1) = magnitude(old.number, 1) * magnitude(bigNumber.number, 1)

\* ---------------------------------------------------------------------------
\* The subtractions of the generic path of divide (lines 425-441): the loops
\* once more, counting the passes of while (bigNumber.lte(rest)).
\* ---------------------------------------------------------------------------
\* divideWhileCount with bigNumber.lt(rest) for bigNumber.lte(rest)
RECURSIVE divideWhileCountStrict(_, _, _)
divideWhileCountStrict(b, rest, count) ==
    IF compareObjects(b, rest) < 0
    THEN divideWhileCountStrict(b, subtractObjects(rest, b).this, count + 1)
    ELSE [rest |-> rest, count |-> count]

RECURSIVE divideWhileCount(_, _, _)
divideWhileCount(b, rest, count) ==
    IF compareObjects(b, rest) <= 0
    THEN divideWhileCount(b, subtractObjects(rest, b).this, count + 1)
    ELSE [rest |-> rest, count |-> count]

\* one limb of this, factor by factor; st = [rest, total, most, bounded, settled]
\*   total    the subtractions made for this limb
\*   most     the largest number of subtractions in one step, over all limbs
\*   bounded  no step for a factor f has made more than f - 1 subtractions
\*   settled  rest has been less than bigNumber at the end of every step
RECURSIVE divideFactorsCount(_, _, _, _, _)
divideFactorsCount(b, digit, divisor, i, st) ==
    IF i <= Len(factors) /\ assigned(st)
    THEN LET d == divisor \div factors[i]
             r1 == multiplyObjects(st.rest, fromNative(factors[i])).this
             r2 == addObjects(r1, fromNative(digit \div d)).this
             w == divideWhileCount(b, r2, 0)
         IN divideFactorsCount(b, digit % d, d, i + 1,
                [rest |-> w.rest,
                 total |-> st.total + w.count,
                 most |-> Max(st.most, w.count),
                 bounded |-> st.bounded /\ w.count <= factors[i] - 1,
                 settled |-> st.settled /\ Value(w.rest) < Value(b)])
    ELSE st

\* the limbs index..0; st as above, with total the largest total of a limb
RECURSIVE divideGenericCount(_, _, _, _)
divideGenericCount(tn, b, index, st) ==
    IF index >= 0 /\ assigned(st)
    THEN LET f == divideFactorsCount(b, tn[index + 1], base, 1, [st EXCEPT !.total = 0])
         IN divideGenericCount(tn, b, index - 1, [f EXCEPT !.total = Max(st.total, f.total)])
    ELSE st

RECURSIVE sumOver(_, _)
sumOver(fs, i) == IF i > Len(fs) THEN 0 ELSE (fs[i] - 1) + sumOver(fs, i + 1)

\* the last call ran the generic path of divide
ranGeneric ==
    /\ arith("divide") /\ ~isZero(old) /\ ~isZero(bigNumber)
    /\ nativebigNumber(bigNumber) = 0

countOfGeneric ==
    divideGenericCount(old.number, abs(bigNumber), Len(old.number) - 1,
                       [rest |-> fromNative(0), total |-> 0, most |-> 0,
                        bounded |-> TRUE, settled |-> TRUE])

\* ---------------------------------------------------------------------------
\* C26  Bounded subtraction count in generic long division: when the divisor
\*      has more than one limb, the running remainder is less than the divisor
\*      at the end of every factor step, a step for the factor f subtracts at
\*      most f - 1 times (at most once when base is a power of two), and the
\*      subtractions made for one limb are at most the sum of f - 1 over the
\*      factors of base, which is at most base - 1.
\* ---------------------------------------------------------------------------
C26_BoundedSubtractions ==
    (ranGeneric /\ canonical(old.number) /\ canonical(bigNumber.number))
        => /\ length(bigNumber) > 1
           /\ countOfGeneric.settled
           /\ countOfGeneric.bounded
           /\ isPowerOfTwo(base) => countOfGeneric.most <= 1
           /\ countOfGeneric.total <= sumOver(factors, 1)
           /\ sumOver(factors, 1) <= base - 1
           /\ Value(countOfGeneric.rest) = Value(this.rest)

\* a quotient limb base - 1: every step of that limb has subtracted f - 1
\* times, and the remainder left is not zero
C26_Witness ==
    /\ ranGeneric
    /\ canonical(old.number) /\ canonical(bigNumber.number)
    /\ countOfGeneric.total = sumOver(factors, 1)
    /\ this.number = <<base - 1>>
    /\ Value(this.rest) > 0

\* ---------------------------------------------------------------------------
\* The queries: _compare and the five comparisons built on it (lines 209-268),
\* isZero (lines 502-511) and toString (lines 528-542), the last one
\* division at a time.  The receiver is created from a native integer and may
\* have been divided once, so that it holds a rest.
\*   copy     the clone toString works on
\*   aliases  "rest": clone.rest and this.rest are one object;
\*            "this": clone and this are one object
\*   answer   what the query returns; for toString, str as it grows
\* ---------------------------------------------------------------------------
boolean(b) == [type |-> "boolean", n |-> IF b THEN 1 ELSE 0, s |-> <<>>, o |-> fromNative(0)]

Comparisons == {"_compare", "lt", "lte", "gt", "gte", "equals"}

\* what the comparison `name` returns when _compare returns c
verdict(name, c) ==
    CASE name = "_compare" -> native(c)
      [] name = "lt" -> boolean(c < 0)
      [] name = "lte" -> boolean(c <= 0)
      [] name = "gt" -> boolean(c > 0)
      [] name = "gte" -> boolean(c >= 0)
      [] name = "equals" -> boolean(c = 0)

\* the operands of a comparison: native numbers, nothing, the receiver
\* itself, its rest, and another instance
QueryOperands == Args \cup {undefined, instance(this), restOf(this), instance(fromNative(base))}

InitQuery == \E n \in Natives : created(native(n))

QueryDivide == fresh /\ DivideOf(Args)

\* a query is made of a receiver that was created or divided
asking == call \in {"BigNumber", "divide"}

QueryCompare ==
    /\ asking
    /\ \E name \in Comparisons, arg \in QueryOperands :
          afterWith(name, arg, answers(this), verdict(name, _compare(this, arg)))

QueryIsZero == asking /\ afterWith("isZero", undefined, answers(this), boolean(isZero(this)))

\* toString of an object whose number is a string (lines 531-533)
ToStringOfText ==
    /\ asking /\ isString(this)
    /\ afterWith("toString", undefined, answers(this), string(<<this.error>>))

\* BigNumber(this).abs() with the receiver itself for the new instance
cloneIsThis(t) == [o |-> abs(t), shares |-> {"this"}]

\* var clone = BigNumber(this).abs() (line 536): a new instance, number sliced,
\* rest the same object (lines 127-133), sign set to 1 (lines 497-500)
clone(t) ==
    [o |-> abs(BigNumber(instance(t))), shares |-> IF t.rest.isBigNumber THEN {"rest"} ELSE {}]

\* what a store into the clone leaves of the receiver
through(al, t, c) == IF "this" \in al THEN c ELSE t

ToStringEnters ==
    /\ asking /\ ~isString(this)
    /\ copy' = [made |-> TRUE, o |-> clone(this).o]
    /\ aliases' = clone(this).shares
    /\ this' = through(clone(this).shares, this, clone(this).o)
    /\ old' = this
    /\ call' = "toString loop"
    /\ number' = undefined
    /\ given' = undefined
    /\ answer' = string(<<>>)
    /\ calls' = calls + 1
    /\ UNCHANGED result

\* str = clone.div(ten).rest._singleDigit() + str (lines 537-539): div stores
\* a new number and a new rest into the clone
ToStringDigit ==
    /\ call = "toString loop"
    /\ ~isZero(copy.o)
    /\ copy' = [copy EXCEPT !.o = divideObjects(copy.o, fromNative(10)).this]
    /\ this' = through(aliases, this, divideObjects(copy.o, fromNative(10)).this)
    /\ aliases' = aliases \ {"rest"}
    /\ answer' = string((IF _singleDigit(divideObjects(copy.o, fromNative(10)).ret.rest) = ""
                         THEN <<>>
                         ELSE <<_singleDigit(divideObjects(copy.o, fromNative(10)).ret.rest)>>)
                        \o answer.s)
    /\ UNCHANGED <<old, call, number, result, given, calls>>

\* lines 540-541
ToStringReturns ==
    /\ call = "toString loop"
    /\ isZero(copy.o)
    /\ call' = "toString"
    /\ answer' = string((IF this.sign > 0 THEN <<>> ELSE <<"-">>)
                        \o (IF answer.s = <<>> THEN <<"0">> ELSE answer.s))
    /\ result' = outcome(answers(this))
    /\ UNCHANGED <<this, old, number, given, copy, aliases, calls>>

NextQuery ==
    \/ QueryDivide \/ QueryCompare \/ QueryIsZero
    \/ ToStringOfText \/ ToStringEnters \/ ToStringDigit \/ ToStringReturns

SpecQuery == InitQuery /\ [][NextQuery]_vars

Queries == Comparisons \cup {"isZero", "toString", "toString loop"}

\* ---------------------------------------------------------------------------
\* C30  Queries have no effect on state: _compare, lt, lte, gt, gte, equals,
\*      isZero and toString leave the sign, the limbs and the rest of the
\*      receiver as they were, at every step of toString's division by ten
\*      as well, and leave an instance passed as operand as it was; the text
\*      toString builds from its clone is the text of the receiver.
\* ---------------------------------------------------------------------------
C30_QueriesLeaveState ==
    /\ call \in Queries => (this = old /\ given = number)
    /\ call = "toString" => text(answer.s) = toString(old)

\* toString has returned three characters for a negative receiver of two limbs
\* that holds a rest: the clone has been divided down to zero and holds its
\* own rest
C30_Witness ==
    /\ call = "toString"
    /\ this.sign = 0 - 1 /\ Len(this.number) = 2
    /\ this.rest.isBigNumber /\ Value(this.rest) > 0
    /\ Len(answer.s) = 3
    /\ isZero(copy.o) /\ copy.o.rest.isBigNumber /\ copy.o.sign = 1
    /\ aliases = {}

\* the bases compared with the base of the model: two primes, a power of two,
\* and two composites that are not a power of a prime
Bases == {2, 3, 4, 6, 10}

\* the limbs of a canonical array of the model's base, written in base bs
rebaseLimbs(bs, arr) ==
    IF ~canonical(arr) THEN arr
    ELSE IF magnitude(arr, 1) = 0 THEN <<0>>
    ELSE nativeLimbsIn(bs, magnitude(arr, 1))

\* the object o with its number and its rest written in base bs
rebase(bs, o) ==
    [o EXCEPT !.number = rebaseLimbs(bs, o.number),
              !.rest = IF o.rest.isBigNumber
                       THEN [o.rest EXCEPT !.number = rebaseLimbs(bs, o.rest.number)]
                       ELSE o.rest]

\* the argument of a call, as the same caller passes it when the base is bs
passed(bs, arg) == IF arg.type = "BigNumber" THEN instance(rebase(bs, arg.o)) ELSE arg

\* what the last call leaves when the base is bs
leavesIn(bs) ==
    CASE call = "add" -> addIn(bs, rebase(bs, old), passed(bs, number))
      [] call = "subtract" -> subtractIn(bs, rebase(bs, old), passed(bs, number))
      [] call = "multiply" -> multiplyIn(bs, rebase(bs, old), passed(bs, number))
      [] call = "divide" -> divideIn(bs, rebase(bs, old), passed(bs, number))
      [] call = "power" -> powerIn(bs, rebase(bs, old), number.n)
      [] OTHER -> returnsThis(BigNumberIn(bs, passed(bs, number)))

\* x, an object of base bs, is y: the same text or the same sign, value,
\* rest and decimal text
alike(bs, x, y) ==
    IF isValid(y)
    THEN /\ x = rebase(bs, y)
         /\ ValueIn(bs, x) = Value(y)
         /\ toStringIn(bs, x) = toString(y)
    ELSE /\ x.error = y.error
         /\ ~(~isString(x) /\ ~hasNaN(x))

\* One call on a receiver created from a native integer or from a string
InitBases == \E initialNumber \in Seeds \cup {native(n) : n \in Natives} : created(initialNumber)

BasesAdd == fresh /\ AddOf(Args)

BasesSubtract == fresh /\ SubtractOf(Args)

BasesMultiply == fresh /\ MultiplyOf(Args)

BasesDivide == fresh /\ DivideOf(Args)

BasesPower == fresh /\ PowerOf(0..MaxPow)

NextBases == BasesAdd \/ BasesSubtract \/ BasesMultiply \/ BasesDivide \/ BasesPower

SpecBases == InitBases /\ [][NextBases]_vars

\* the receiver and the argument of the last call can be written in any base
rebased ==
    /\ call \in {"BigNumber", "add", "subtract", "multiply", "divide", "power"}
    /\ \A o \in {old, bigNumber} :
          /\ isValid(o)
          /\ canonical(o.number) \/ o.number = <<>>
          /\ o.rest.isBigNumber => canonical(o.rest.number)

\* ---------------------------------------------------------------------------
\* C25  Results do not depend on the base: with base set to 2, 3, 4, 6 or 10,
\*      construction, add, subtract, multiply, divide (quotient and
\*      remainder), power and toString give the same integer values and the
\*      same decimal text as with the base of the model, on the same receiver
\*      and the same argument.
\* ---------------------------------------------------------------------------
C25_BaseIndependent ==
    rebased
        => \A bs \in Bases :
              /\ alike(bs, leavesIn(bs).this, this)
              /\ alike(bs, leavesIn(bs).ret, ret)
              /\ leavesIn(bs).same = result.same
              /\ leavesIn(bs).thrown = result.thrown

\* a division of a receiver of two limbs by 17, which is two limbs in every
\* base compared and in the base of the model, has left a quotient and a
\* rest that are not zero; in base 2 the receiver had six limbs
C25_Witness ==
    /\ rebased
    /\ call = "divide" /\ number = native(base + 1)
    /\ Len(old.number) = 2
    /\ Value(this) > 1 /\ Value(this.rest) > 1
    /\ \A bs \in Bases : /\ Len(BigNumberIn(bs, number).number) > 1
                         /\ leavesIn(bs).this = rebase(bs, this)
    /\ Len(rebase(2, old).number) = 6
====
